---- MODULE Spec2Model ----
(***************************************************************************)
(* Model of the data buffering, persistence and delivery subsystem of the  *)
(* esp32_sunlight_sensor firmware.                                         *)
(*                                                                         *)
(*   SpecCore   data_sender_core.c: add_readings_to_buffer and             *)
(*              process_data_send_cycle driven by a mock network.          *)
(*   SpecAdd    add_readings_to_buffer on one buffer.                      *)
(*   SpecOutage process_data_send_cycle through network outages.           *)
(*   SpecStore, SpecStoreCrash                                             *)
(*              persistent_storage.c on one NVS partition.                 *)
(*   SpecCapacity                                                          *)
(*              saves beyond PERSISTENT_STORAGE_MAX_READINGS.              *)
(*   SpecSend   the send functions of data_processor.c, task_send_data.c   *)
(*              and status_reporter.c: timestamp filter and retry loop.    *)
(*   SpecTask, SpecTaskFair                                                *)
(*              the sampler task (task_get_sensor_data.c,                  *)
(*              sensor_buffer_core.c) and the sender task                  *)
(*              (task_send_data.c) on the shared reading buffer.           *)
(*   SpecBuffer add_sensor_reading of sensor_buffer_core.c driven through  *)
(*              its lock interface, as test_sensor_buffer_core.c does.     *)
(*   SpecMutex  the storage operations of persistent_storage.c called by   *)
(*              two tasks, one step per NVS call, on s_nvs_mutex.          *)
(*   SpecLoop   the loop of task_send_data against the clock: the send     *)
(*              interval, last_send_time and wifi_send_failed.             *)
(***************************************************************************)
EXTENDS Integers, Sequences, FiniteSets, TLC

(***************************************************************************)
(* Bounds of the model.                                                    *)
(***************************************************************************)
\* readings saved in the storage specifications are numbered 1..MaxStoreId
MaxStoreId == 3
\* readings saved in SpecCapacity are numbered 1..MaxCapId
MaxCapId == 5
\* longest array of readings handed to a send function in SpecSend
MaxFilterLen == 2
\* largest batch passed to one persistent_storage_save_readings call
MaxBatchLen == 2
\* max_count passed to persistent_storage_load_readings: the firmware's
\* PERSISTENT_STORAGE_MAX_READINGS (960), scaled down
MaxLoadCount == 3
\* largest capacity of a reading_buffer_t drawn by Init
MaxCap == 3
\* largest number of readings passed to one add_readings_to_buffer call
MaxIncoming == 3
\* readings are numbered 1..MaxId in the order they are produced
MaxId == 5
\* readings produced in SpecCore
MaxCoreId == 3
\* context->buffer_size: the firmware's READING_BUFFER_SIZE (20), scaled down
BufferSize == 2
\* readings sampled in the task specifications are numbered 1..MaxTaskId
MaxTaskId == 3
\* largest buffer->capacity handed to init_sensor_buffer in SpecBuffer
MaxBufferCap == 3
\* add_sensor_reading calls in SpecBuffer are numbered 1..MaxBufferId
MaxBufferId == 4
\* calls of the storage operations in SpecMutex
MaxMutexCalls == 3
\* saves in SpecMutex begin only while fewer batches are stored
MaxMutexBatches == 2
\* readings sampled in SpecLoop are numbered 1..MaxLoopId
MaxLoopId == 1
\* vTaskDelay turns of the task_send_data loop in SpecLoop
MaxLoopTurns == 20
\* MAX_READINGS_PER_CHUNK of api_client.c and http.c (50), scaled down
MAX_READINGS_PER_CHUNK == 2
\* longest filtered batch handed to the chunked senders in SpecChunk
MaxChunkCount == 5
\* calls of send_device_status_if_appropriate in one boot in SpecStatus
MaxStatusCalls == 3
\* the number of values of a uint32_t in task_keepalive_transistor.c: 2^32 in
\* the firmware, scaled down
KeepaliveWord == 1048576
\* activations of the keep-alive resistor followed in SpecKeepalive
MaxActivations == 2

(***************************************************************************)
(* Numbers of the firmware.                                                *)
(***************************************************************************)
\* create_corrected_readings: timestamps before 2024-01-01 are skipped
ValidTimeFloor == 1704067200
\* create_corrected_readings: timestamps more than an hour ahead are skipped
FutureSlack == 3600
\* MAX_HTTP_RETRY_ATTEMPTS
MaxAttempts == 3
\* DATA_SEND_INTERVAL_MINUTES * 60
DATA_SEND_INTERVAL_S == 300
\* seconds between two looks of task_send_data at the clock
TASK_LOOP_CHECK_INTERVAL_S == 30
\* the wait for the connection: 15 retries of 2000 ms
ConnectWait == 30
\* int wifi_retries = 15 / int connection_retries = 15: the polls of the
\* wait for the Wi-Fi connection
WifiRetries == 15

(***************************************************************************)
(* Helpers on C arrays, modelled as sequences of fixed length.             *)
(***************************************************************************)
Min(a, b) == IF a < b THEN a ELSE b

Max(a, b) == IF a > b THEN a ELSE b

\* the last k elements of s
LastK(s, k) == SubSeq(s, Len(s) - k + 1, Len(s))

\* the first k elements of s
FirstK(s, k) == SubSeq(s, 1, k)

\* memcpy / memmove(&dst[dpos], &src[spos], n * sizeof(elem)) with 0-based
\* positions; the source is read before the destination is written, which
\* is what memmove guarantees and what memcpy does for disjoint arrays
MemCopy(dst, dpos, src, spos, n) ==
    [i \in 1..Len(dst) |->
        IF i > dpos /\ i <= dpos + n THEN src[spos + (i - dpos)] ELSE dst[i]]

\* the set of elements of a sequence
Range(s) == {s[i] : i \in 1..Len(s)}

VARIABLES
    \* ---- data_sender_core.c ----
    current_readings,   \* reading_buffer_t: [buffer, count, capacity]
    unsent_buffer,      \* reading_buffer_t: [buffer, count, capacity]
    mock_connected,     \* the mock network's connection state
    last_ntp_sync,      \* *last_ntp_sync
    cycle_result,       \* what the last process_data_send_cycle returned
    cycle_calls,        \* network calls made by the last cycle, in order
    add_call,           \* the last add_readings_to_buffer call: prior contents, incoming
    hist,               \* readings added to the buffer since it was last empty
    next_id,            \* the number of the next reading produced
    \* ---- persistent_storage.c and the NVS partition under it ----
    nvs,                \* the NVS namespace "sensor_data": batch_count and the blobs
    s_initialized,      \* static bool s_initialized
    s_nvs_mutex,        \* "free" or "held"
    st_pc,              \* where the running storage operation stands
    st_op,              \* its arguments and locals: readings, batch_count, i
    st_ret,             \* what the last finished storage operation returned: code, count
    st_ghost,           \* bookkeeping of failed erases and of power losses
    \* ---- the tasks: main.c, task_get_sensor_data.c, task_send_data.c ----
    reading_buffer,     \* g_reading_buffer[READING_BUFFER_SIZE]
    reading_idx,        \* g_reading_idx
    buffer_mutex,       \* context->buffer_mutex: "free", "sampler" or "sender"
    wifi_send_failed,   \* context->wifi_send_failed
    sys_time,           \* what time() returns: 0 until SNTP has set the clock
    smp,                \* the sampler task: position, reading in hand, result
    snd,                \* the sender task: position, temp_buffer, temp_count
    env_good,           \* the outage is over: every call succeeds, no restart
    tk_ghost            \* bookkeeping: readings appended, drained, sent

coreVars == <<current_readings, unsent_buffer, mock_connected, last_ntp_sync,
              cycle_result, cycle_calls, add_call, hist, next_id>>

storeVars == <<nvs, s_initialized, s_nvs_mutex, st_pc, st_op,
               st_ret, st_ghost>>

taskVars == <<reading_buffer, reading_idx, buffer_mutex, wifi_send_failed, sys_time,
              smp, snd, env_good, tk_ghost>>

vars == <<coreVars, storeVars, taskVars>>

(***************************************************************************)
(* The state of the tasks after app_main: main.c                           *)
(***************************************************************************)
\* a zero-filled sensor_reading_t; a reading is [id, ts]: ts its timestamp,
\* id stands for the lux value and tells the readings apart
ZeroReading == [id |-> 0, ts |-> 0]

\* the sampler before its first reading
InitSampler == [pc |-> "wait", reading |-> ZeroReading, result |-> "none", next |-> 1]

\* the sender at the top of task_send_data.  store_nonempty and stored_called
\* are bookkeeping of the running cycle: whether the store held readings when
\* the cycle connected, and whether the cycle has called send_stored_readings
InitSender ==
    [pc |-> "boot", branch |-> "none", temp_buffer |-> <<>>, temp_count |-> 0,
     store_nonempty |-> FALSE, stored_called |-> FALSE]

\* bookkeeping since the last restart: the readings appended with SUCCESS, the
\* readings copied out by drains, and the appends since the last drain
InitTaskGhost == [appended |-> <<>>, drained |-> <<>>, since |-> 0]

\* static g_reading_buffer, g_reading_idx = 0, the mutex created, the flag false
InitTaskVars ==
    /\ reading_buffer = [i \in 1..BufferSize |-> ZeroReading]
    /\ reading_idx = 0
    /\ buffer_mutex = "free"
    /\ wifi_send_failed = FALSE
    /\ sys_time = 0
    /\ smp = InitSampler
    /\ snd = InitSender
    /\ env_good = FALSE
    /\ tk_ghost = InitTaskGhost

(***************************************************************************)
(* The NVS namespace "sensor_data": key batch_count (int32) and the blobs   *)
(* batch_<i>.  ESP-IDF's NVS writes every nvs_set_* and nvs_erase_key to     *)
(* flash before the call returns, each entry atomically; nvs_commit has     *)
(* nothing left to write and only reports a result.                         *)
(***************************************************************************)
\* an erased (or never written) namespace
EmptyNvs == [has_count |-> FALSE, batch_count |-> 0, blobs |-> <<>>]

\* the keys batch_<i> that hold a blob
BlobKeys(st) == DOMAIN st.blobs

\* one write through the handle
SetBlobOp(key, readings) == [kind |-> "set_blob", key |-> key, blob |-> readings]

SetCountOp(n) == [kind |-> "set_count", key |-> n, blob |-> <<>>]

EraseBlobOp(key) == [kind |-> "erase_blob", key |-> key, blob |-> <<>>]

EraseCountOp == [kind |-> "erase_count", key |-> 0, blob |-> <<>>]

\* the namespace after one write
ApplyOp(st, op) ==
    CASE op.kind = "set_blob" ->
            [st EXCEPT !.blobs = [k \in (DOMAIN st.blobs) \cup {op.key} |->
                                     IF k = op.key THEN op.blob ELSE st.blobs[k]]]
      [] op.kind = "set_count" ->
            [st EXCEPT !.has_count = TRUE, !.batch_count = op.key]
      [] op.kind = "erase_blob" ->
            [st EXCEPT !.blobs = [k \in (DOMAIN st.blobs) \ {op.key} |-> st.blobs[k]]]
      [] OTHER ->
            [st EXCEPT !.has_count = FALSE, !.batch_count = 0]

RECURSIVE ApplyOps(_, _)
ApplyOps(st, ops) ==
    IF ops = <<>> THEN st ELSE ApplyOps(ApplyOp(st, Head(ops)), Tail(ops))

(***************************************************************************)
(* persistent_storage.c                                                    *)
(***************************************************************************)
\* nvs_get_i32(KEY_BATCH_COUNT, &batch_count) with batch_count preset to 0:
\* the value read, 0 when the key is absent
CountRead(st) == IF st.has_count THEN st.batch_count ELSE 0

\* which NVS reads fail during one load or count pass: the counter read, the
\* size queries and the content reads of the listed batches
NoFails == [get |-> FALSE, size |-> {}, read |-> {}]

\* the batch loop giving up at the first batch that cannot be read
RECURSIVE LoadLoopAbort(_, _, _, _, _, _)
LoadLoopAbort(st, i, batch_count, max_count, fails, loaded) ==
    IF i >= batch_count
    THEN loaded
    ELSE IF i \notin BlobKeys(st) \/ i \in fails.size \/ i \in fails.read
    THEN loaded
    ELSE IF Len(loaded) + Len(st.blobs[i]) > max_count
    THEN loaded
    ELSE LoadLoopAbort(st, i + 1, batch_count, max_count, fails, loaded \o st.blobs[i])

\* the batch loop of persistent_storage_load_readings, from batch i on
RECURSIVE LoadLoop(_, _, _, _, _, _)
LoadLoop(st, i, batch_count, max_count, fails, loaded) ==
    IF i >= batch_count
    THEN loaded
    ELSE IF i \notin BlobKeys(st) \/ i \in fails.size
    THEN LoadLoop(st, i + 1, batch_count, max_count, fails, loaded)
    ELSE IF Len(loaded) + Len(st.blobs[i]) > max_count
    THEN loaded
    ELSE IF i \in fails.read
    THEN LoadLoop(st, i + 1, batch_count, max_count, fails, loaded)
    ELSE LoadLoop(st, i + 1, batch_count, max_count, fails, loaded \o st.blobs[i])

\* persistent_storage_load_readings after the argument checks: the error code
\* and the readings loaded
persistent_storage_load_readings(st, max_count, fails) ==
    IF ~st.has_count
    THEN [err |-> "ESP_OK", readings |-> <<>>]
    ELSE IF fails.get
    THEN [err |-> "ESP_FAIL", readings |-> <<>>]
    ELSE [err |-> "ESP_OK",
          readings |-> LoadLoop(st, 0, st.batch_count, max_count, fails, <<>>)]

\* the size loop of persistent_storage_get_count, from batch i on
RECURSIVE CountLoop(_, _, _, _)
CountLoop(st, i, batch_count, fails) ==
    IF i >= batch_count
    THEN 0
    ELSE (IF i \in BlobKeys(st) /\ i \notin fails.size THEN Len(st.blobs[i]) ELSE 0)
         + CountLoop(st, i + 1, batch_count, fails)

\* persistent_storage_get_count after the argument checks
persistent_storage_get_count(st, fails) ==
    IF ~st.has_count
    THEN [err |-> "ESP_OK", count |-> 0]
    ELSE IF fails.get
    THEN [err |-> "ESP_FAIL", count |-> 0]
    ELSE [err |-> "ESP_OK", count |-> CountLoop(st, 0, st.batch_count, fails)]

\* what a load into a buffer that is large enough returns when no read fails
StoredReadings(st) ==
    persistent_storage_load_readings(st, CountLoop(st, 0, CountRead(st), NoFails),
                                     NoFails).readings

\* the blob write of save_readings with the counter written first
SaveBlobOpsCounterFirst(batch_count, readings) ==
    <<SetCountOp(batch_count + 1), SetBlobOp(batch_count, readings)>>

\* save_readings: nvs_set_blob(batch_<batch_count>, readings)
SaveBlobOps(batch_count, readings) == <<SetBlobOp(batch_count, readings)>>

\* the counter write of save_readings with the increment left out
SaveCountOpsStale(batch_count) == <<SetCountOp(batch_count)>>

\* save_readings: batch_count++; nvs_set_i32(KEY_BATCH_COUNT, batch_count)
SaveCountOps(batch_count) == <<SetCountOp(batch_count + 1)>>

\* clear_readings: nvs_erase_key(batch_<i>)
ClearEraseOps(i) == <<EraseBlobOp(i)>>

\* clear_readings with the erase of the counter left out
ClearCountOpsKept == <<>>

\* clear_readings: nvs_erase_key(KEY_BATCH_COUNT)
ClearCountOps == <<EraseCountOp>>

NoOp == [name |-> "none", readings |-> <<>>, batch_count |-> 0, i |-> 0, pre |-> <<>>]

NoRet == [op |-> "none", err |-> "none", count |-> 0]

NoGhost == [cnt_erase_failed |-> FALSE, phase |-> "none", n |-> 0, pre |-> <<>>,
            new |-> <<>>]

\* the state of persistent_storage.c before persistent_storage_init, on an
\* erased partition
InitStoreVars ==
    /\ nvs = EmptyNvs
    /\ s_initialized = FALSE
    /\ s_nvs_mutex = "free"
    /\ st_pc = "idle"
    /\ st_op = NoOp
    /\ st_ret = NoRet
    /\ st_ghost = NoGhost

\* a storage operation returns before taking the mutex
Reject(op, err) ==
    /\ st_ret' = [op |-> op, err |-> err, count |-> 0]
    /\ UNCHANGED <<nvs, s_nvs_mutex, st_pc, st_op>>

\* xSemaphoreTake(s_nvs_mutex, portMAX_DELAY) and entry into the operation
Enter(op, pc, readings) ==
    /\ s_nvs_mutex = "free"
    /\ s_nvs_mutex' = "held"
    /\ st_pc' = pc
    /\ st_op' = [NoOp EXCEPT !.name = op, !.readings = readings]
    /\ UNCHANGED <<nvs, st_ret>>

\* xSemaphoreGive(s_nvs_mutex); return err
Finish(err) ==
    /\ s_nvs_mutex' = "free"
    /\ st_pc' = "idle"
    /\ st_ret' = [op |-> st_op.name, err |-> err, count |-> 0]

\* persistent_storage_init: nvs_open succeeds or fails
StorageInit ==
    /\ st_pc = "idle"
    /\ ~s_initialized
    /\ \E ok \in BOOLEAN :
          /\ s_initialized' = ok
          /\ st_ret' = [op |-> "init", err |-> IF ok THEN "ESP_OK" ELSE "ESP_FAIL",
                        count |-> 0]
    /\ UNCHANGED <<nvs, s_nvs_mutex, st_pc, st_op, st_ghost>>

\* persistent_storage_save_readings(readings, count) up to the mutex
StartSave(readings) ==
    /\ st_pc = "idle"
    /\ IF ~s_initialized
       THEN Reject("save", "ESP_ERR_INVALID_STATE")
       ELSE IF Len(readings) <= 0
       THEN Reject("save", "ESP_ERR_INVALID_ARG")
       ELSE Enter("save", "save_get", readings)
    /\ UNCHANGED <<s_initialized, st_ghost>>

\* save_readings: nvs_get_i32(KEY_BATCH_COUNT)
SaveGet ==
    /\ st_pc = "save_get"
    /\ \E fail \in BOOLEAN :
          IF fail /\ nvs.has_count
          THEN Finish("ESP_FAIL") /\ UNCHANGED st_op
          ELSE /\ st_op' = [st_op EXCEPT !.batch_count = CountRead(nvs),
                                         !.pre = StoredReadings(nvs)]
               /\ st_pc' = "save_blob"
               /\ UNCHANGED <<s_nvs_mutex, st_ret>>
    /\ UNCHANGED <<nvs, s_initialized, st_ghost>>

\* save_readings: nvs_set_blob
SaveBlob ==
    /\ st_pc = "save_blob"
    /\ \E fail \in BOOLEAN :
          IF fail
          THEN Finish("ESP_FAIL") /\ UNCHANGED <<nvs, st_ghost>>
          ELSE /\ nvs' = ApplyOps(nvs, SaveBlobOps(st_op.batch_count, st_op.readings))
               /\ st_pc' = "save_cnt"
               /\ st_ghost' = IF st_ghost.phase = "crashed"
                              THEN [st_ghost EXCEPT !.phase = "resaved",
                                                    !.new = st_op.readings]
                              ELSE st_ghost
               /\ UNCHANGED <<s_nvs_mutex, st_ret>>
    /\ UNCHANGED <<s_initialized, st_op>>

\* save_readings: nvs_set_i32 of the incremented counter
SaveCnt ==
    /\ st_pc = "save_cnt"
    /\ \E fail \in BOOLEAN :
          IF fail
          THEN Finish("ESP_FAIL") /\ UNCHANGED nvs
          ELSE /\ nvs' = ApplyOps(nvs, SaveCountOps(st_op.batch_count))
               /\ st_pc' = "save_commit"
               /\ UNCHANGED <<s_nvs_mutex, st_ret>>
    /\ st_ghost' = [st_ghost EXCEPT !.phase = "none"]
    /\ UNCHANGED <<s_initialized, st_op>>

\* save_readings: nvs_commit, whose result is returned
SaveCommit ==
    /\ st_pc = "save_commit"
    /\ \E fail \in BOOLEAN : Finish(IF fail THEN "ESP_FAIL" ELSE "ESP_OK")
    /\ UNCHANGED <<nvs, s_initialized, st_op, st_ghost>>

\* persistent_storage_clear_readings up to the mutex
StartClear ==
    /\ st_pc = "idle"
    /\ IF ~s_initialized
       THEN Reject("clear", "ESP_ERR_INVALID_STATE") /\ UNCHANGED st_ghost
       ELSE /\ Enter("clear", "clear_get", <<>>)
            /\ st_ghost' = [st_ghost EXCEPT !.phase = "none"]
    /\ UNCHANGED s_initialized

\* clear_readings: nvs_get_i32, result ignored: on failure batch_count stays 0
ClearGet ==
    /\ st_pc = "clear_get"
    /\ \E fail \in BOOLEAN :
          st_op' = [st_op EXCEPT !.batch_count = IF fail THEN 0 ELSE CountRead(nvs),
                                 !.i = 0]
    /\ st_pc' = "clear_erase"
    /\ UNCHANGED <<nvs, s_initialized, s_nvs_mutex, st_ret, st_ghost>>

\* clear_readings: one turn of the erase loop, result of nvs_erase_key ignored
ClearErase ==
    /\ st_pc = "clear_erase"
    /\ st_op.i < st_op.batch_count
    /\ \E fail \in BOOLEAN :
          nvs' = IF fail THEN nvs ELSE ApplyOps(nvs, ClearEraseOps(st_op.i))
    /\ st_op' = [st_op EXCEPT !.i = @ + 1]
    /\ UNCHANGED <<s_initialized, s_nvs_mutex, st_pc, st_ret, st_ghost>>

\* clear_readings: nvs_erase_key(KEY_BATCH_COUNT), result ignored
ClearCnt ==
    /\ st_pc = "clear_erase"
    /\ st_op.i >= st_op.batch_count
    /\ \E fail \in BOOLEAN :
          /\ nvs' = IF fail THEN nvs ELSE ApplyOps(nvs, ClearCountOps)
          /\ st_ghost' = [st_ghost EXCEPT !.cnt_erase_failed = fail /\ nvs.has_count]
    /\ st_pc' = "clear_commit"
    /\ UNCHANGED <<s_initialized, s_nvs_mutex, st_op, st_ret>>

\* clear_readings: nvs_commit, whose result is returned
ClearCommit ==
    /\ st_pc = "clear_commit"
    /\ \E fail \in BOOLEAN : Finish(IF fail THEN "ESP_FAIL" ELSE "ESP_OK")
    /\ UNCHANGED <<nvs, s_initialized, st_op, st_ghost>>

\* the reads that may fail in one load pass over batches 0..n-1: the counter
\* read, and for each batch its size query or its content read
LoadFailChoices(n) ==
    {[get |-> g, size |-> sz, read |-> rd] :
        g \in BOOLEAN, sz \in SUBSET (0..n - 1), rd \in SUBSET (0..n - 1)}

\* the reads that may fail in one count pass over batches 0..n-1
CountFailChoices(n) ==
    {[get |-> g, size |-> sz, read |-> {}] : g \in BOOLEAN, sz \in SUBSET (0..n - 1)}

\* persistent_storage_load_readings(readings, max_count, &loaded_count); the
\* operation only reads, under the mutex
LoadCall(max_count) ==
    /\ st_pc = "idle"
    /\ IF ~s_initialized
       THEN st_ret' = [op |-> "load", err |-> "ESP_ERR_INVALID_STATE", count |-> 0]
       ELSE IF max_count <= 0
       THEN st_ret' = [op |-> "load", err |-> "ESP_ERR_INVALID_ARG", count |-> 0]
       ELSE /\ s_nvs_mutex = "free"
            /\ \E fails \in LoadFailChoices(CountRead(nvs)) :
                  /\ fails.size \cap fails.read = {}
                  /\ LET r == persistent_storage_load_readings(nvs, max_count, fails)
                     IN st_ret' = [op |-> "load", err |-> r.err,
                                   count |-> Len(r.readings)]
    /\ UNCHANGED <<nvs, s_initialized, s_nvs_mutex, st_pc, st_op, st_ghost>>

\* persistent_storage_get_count(&count)
GetCountCall ==
    /\ st_pc = "idle"
    /\ IF ~s_initialized
       THEN st_ret' = [op |-> "get_count", err |-> "ESP_ERR_INVALID_STATE", count |-> 0]
       ELSE /\ s_nvs_mutex = "free"
            /\ \E fails \in CountFailChoices(CountRead(nvs)) :
                  /\ LET r == persistent_storage_get_count(nvs, fails)
                     IN st_ret' = [op |-> "get_count", err |-> r.err, count |-> r.count]
    /\ UNCHANGED <<nvs, s_initialized, s_nvs_mutex, st_pc, st_op, st_ghost>>

\* power is lost and the firmware boots again: flash keeps what was written,
\* the statics of persistent_storage.c start over
PowerLoss ==
    /\ s_initialized' = FALSE
    /\ s_nvs_mutex' = "free"
    /\ st_pc' = "idle"
    /\ st_op' = NoOp
    /\ st_ret' = NoRet
    /\ st_ghost' = IF st_pc = "save_cnt"
                   THEN [st_ghost EXCEPT !.phase = "crashed", !.n = st_op.batch_count,
                                         !.pre = st_op.pre, !.new = <<>>]
                   ELSE st_ghost
    /\ UNCHANGED nvs

(***************************************************************************)
(* data_sender_core.c                                                      *)
(***************************************************************************)
\* the readings a buffer holds: slots 0..count-1
Contents(b) == FirstK(b.buffer, b.count)

\* init_reading_buffer: zero-initialised storage of the given capacity
init_reading_buffer(capacity) ==
    [buffer |-> [i \in 1..capacity |-> 0], count |-> 0, capacity |-> capacity]

clear_reading_buffer(b) == [b EXCEPT !.count = 0]

\* AddOverflow with the memmove left out: the count is reduced but the
\* surviving readings are not shifted to the front
AddOverflowNoShift(b, count) ==
    LET overflow == (b.count + count) - b.capacity
    IN IF overflow >= b.count
       THEN [b EXCEPT !.count = 0]
       ELSE [b EXCEPT !.count = b.count - overflow]

\* the overflow branch of add_readings_to_buffer: make room by dropping
\* the oldest readings
AddOverflow(b, count) ==
    LET overflow == (b.count + count) - b.capacity
    IN IF overflow >= b.count
       THEN [b EXCEPT !.count = 0]
       ELSE LET keep_count == b.count - overflow
            IN [b EXCEPT !.buffer = MemCopy(b.buffer, 0, b.buffer, overflow, keep_count),
                         !.count = keep_count]

\* the append part of add_readings_to_buffer: as many new readings as fit,
\* taken from the start of new_readings
AddAppend(b, new_readings, count) ==
    LET can_add == b.capacity - b.count
        n == IF count > can_add THEN can_add ELSE count
    IN IF n > 0
       THEN [b EXCEPT !.buffer = MemCopy(b.buffer, b.count, new_readings, 0, n),
                      !.count = b.count + n]
       ELSE b

add_readings_to_buffer(b, new_readings, count) ==
    IF count <= 0
    THEN b
    ELSE LET b1 == IF b.count + count > b.capacity THEN AddOverflow(b, count) ELSE b
         IN AddAppend(b1, new_readings, count)

\* one entry of the call log of a cycle
Call(op, data, ok) == [op |-> op, data |-> data, ok |-> ok]

\* the connect-failure branch with the current readings thrown away
CycleNoNetworkDrop(cur, uns) ==
    [cur |-> clear_reading_buffer(cur), uns |-> uns, added |-> FALSE]

\* the connect-failure branch: store the current readings for later
CycleNoNetwork(cur, uns) ==
    IF cur.count > 0
    THEN [cur |-> clear_reading_buffer(cur),
          uns |-> add_readings_to_buffer(uns, cur.buffer, cur.count),
          added |-> TRUE]
    ELSE [cur |-> cur, uns |-> uns, added |-> FALSE]

\* "Send stored readings first" with the buffer left as it is after a success
CycleSendUnsentKeep(uns, ok) == uns

\* "Send stored readings first" with the buffer cleared whatever send_data returned
CycleSendUnsentClearAlways(uns, ok) ==
    IF uns.count > 0 THEN clear_reading_buffer(uns) ELSE uns

\* "Send stored readings first": the unsent buffer is sent, and cleared on success
CycleSendUnsent(uns, ok) ==
    IF uns.count > 0 /\ ok THEN clear_reading_buffer(uns) ELSE uns

\* "Send current readings" with the readings that failed thrown away
CycleSendCurrentDrop(cur, uns, ok) ==
    [cur |-> clear_reading_buffer(cur), uns |-> uns, added |-> FALSE]

\* "Send current readings" with the buffer left as it is after a success
CycleSendCurrentKeep(cur, uns, ok) ==
    IF cur.count > 0 /\ ~ok
    THEN [cur |-> clear_reading_buffer(cur),
          uns |-> add_readings_to_buffer(uns, cur.buffer, cur.count),
          added |-> TRUE]
    ELSE [cur |-> cur, uns |-> uns, added |-> FALSE]

\* "Send current readings": cleared on success, moved to the unsent buffer on failure
CycleSendCurrent(cur, uns, ok) ==
    IF cur.count > 0
    THEN IF ok
         THEN [cur |-> clear_reading_buffer(cur), uns |-> uns, added |-> FALSE]
         ELSE [cur |-> clear_reading_buffer(cur),
               uns |-> add_readings_to_buffer(uns, cur.buffer, cur.count),
               added |-> TRUE]
    ELSE [cur |-> cur, uns |-> uns, added |-> FALSE]

\* the order in which a connected cycle hands its buffers to send_data
CycleSendCalls(cur, uns, in) ==
    (IF uns.count > 0
     THEN <<Call("send_unsent", Contents(uns), in.ok_unsent)>> ELSE <<>>)
    \o (IF cur.count > 0
        THEN <<Call("send_current", Contents(cur), in.ok_current)>> ELSE <<>>)

\* process_data_send_cycle with the check for empty buffers left out
CycleWithoutDataCheck(cur, uns, conn, last, in) ==
    LET calls1 == IF ~conn THEN <<Call("connect", <<>>, in.connect_ok)>> ELSE <<>>
        conn1  == IF ~conn THEN in.connect_ok ELSE TRUE
    IN IF ~conn1
       THEN LET r == CycleNoNetwork(cur, uns)
            IN [cur |-> r.cur, uns |-> r.uns, conn |-> FALSE, last |-> last,
                result |-> "SEND_RESULT_NO_NETWORK", calls |-> calls1,
                added |-> r.added, prior |-> Contents(uns)]
       ELSE
       LET calls2 == calls1 \o (IF in.should_sync
                                THEN <<Call("sync_time", <<>>, TRUE)>> ELSE <<>>)
           last2  == IF in.should_sync THEN in.now ELSE last
           uns3   == CycleSendUnsent(uns, in.ok_unsent)
           r      == CycleSendCurrent(cur, uns3, in.ok_current)
           calls3 == calls2 \o CycleSendCalls(cur, uns, in)
           all_sent == (uns.count > 0 => in.ok_unsent) /\ (cur.count > 0 => in.ok_current)
           calls4 == calls3 \o (IF in.power_low
                                THEN <<Call("disconnect", <<>>, TRUE)>> ELSE <<>>)
       IN [cur |-> r.cur, uns |-> r.uns,
           conn |-> IF in.power_low THEN FALSE ELSE TRUE,
           last |-> last2,
           result |-> IF all_sent THEN "SEND_RESULT_SUCCESS" ELSE "SEND_RESULT_SEND_FAILED",
           calls |-> calls4, added |-> r.added, prior |-> Contents(uns3)]

\* process_data_send_cycle. in: what the mock network answers in this cycle.
\* The result holds the buffers, the connection state, *last_ntp_sync, the
\* return value, the calls made and the add_readings_to_buffer call made, if any.
process_data_send_cycle(cur, uns, conn, last, in) ==
    IF cur.count = 0 /\ uns.count = 0
    THEN [cur |-> cur, uns |-> uns, conn |-> conn, last |-> last,
          result |-> "SEND_RESULT_NO_DATA", calls |-> <<>>,
          added |-> FALSE, prior |-> <<>>]
    ELSE
    LET calls1 == IF ~conn THEN <<Call("connect", <<>>, in.connect_ok)>> ELSE <<>>
        conn1  == IF ~conn THEN in.connect_ok ELSE TRUE
    IN IF ~conn1
       THEN LET r == CycleNoNetwork(cur, uns)
            IN [cur |-> r.cur, uns |-> r.uns, conn |-> FALSE, last |-> last,
                result |-> "SEND_RESULT_NO_NETWORK", calls |-> calls1,
                added |-> r.added, prior |-> Contents(uns)]
       ELSE
       LET calls2 == calls1 \o (IF in.should_sync
                                THEN <<Call("sync_time", <<>>, TRUE)>> ELSE <<>>)
           last2  == IF in.should_sync THEN in.now ELSE last
           uns3   == CycleSendUnsent(uns, in.ok_unsent)
           r      == CycleSendCurrent(cur, uns3, in.ok_current)
           calls3 == calls2 \o CycleSendCalls(cur, uns, in)
           all_sent == (uns.count > 0 => in.ok_unsent) /\ (cur.count > 0 => in.ok_current)
           calls4 == calls3 \o (IF in.power_low
                                THEN <<Call("disconnect", <<>>, TRUE)>> ELSE <<>>)
       IN [cur |-> r.cur, uns |-> r.uns,
           conn |-> IF in.power_low THEN FALSE ELSE TRUE,
           last |-> last2,
           result |-> IF all_sent THEN "SEND_RESULT_SUCCESS" ELSE "SEND_RESULT_SEND_FAILED",
           calls |-> calls4, added |-> r.added, prior |-> Contents(uns3)]

\* what the mock network may answer in one cycle
CycleInputs ==
    [connect_ok : BOOLEAN, should_sync : BOOLEAN, ok_unsent : BOOLEAN,
     ok_current : BOOLEAN, power_low : BOOLEAN, now : {1}]

\* the readings numbered from..from+n-1
NewReadings(from, n) == [i \in 1..n |-> from + i - 1]

\* the bookkeeping of one add_readings_to_buffer(b, new, n) call: the readings
\* added since the buffer was last empty, and whether a call exceeded the capacity
HistAfterAdd(h, b, new) ==
    [log |-> (IF b.count = 0 THEN <<>> ELSE h.log) \o new,
     over |-> (IF b.count = 0 THEN FALSE ELSE h.over) \/ Len(new) > b.capacity]

NoAddCall == [made |-> FALSE, prior |-> <<>>, incoming |-> <<>>]

\* the part of the state that only SpecAdd moves
InitAddGhost ==
    /\ add_call = NoAddCall
    /\ hist = [log |-> <<>>, over |-> FALSE]

InitCore ==
    /\ \E c1 \in 1..MaxCap, c2 \in 1..MaxCap :
          /\ current_readings = init_reading_buffer(c1)
          /\ unsent_buffer = init_reading_buffer(c2)
    /\ mock_connected \in BOOLEAN
    /\ last_ntp_sync = 0
    /\ cycle_result = "none"
    /\ cycle_calls = <<>>
    /\ InitAddGhost
    /\ next_id = 1
    /\ InitStoreVars
    /\ InitTaskVars

\* the test harness (or the sampler) appends one fresh reading to the current buffer
AddCurrent ==
    /\ next_id <= MaxCoreId
    /\ current_readings' =
          add_readings_to_buffer(current_readings, NewReadings(next_id, 1), 1)
    /\ next_id' = next_id + 1
    /\ cycle_result' = "none"
    /\ cycle_calls' = <<>>
    /\ UNCHANGED <<unsent_buffer, mock_connected, last_ntp_sync, add_call, hist, storeVars, taskVars>>

\* one call of process_data_send_cycle
Cycle ==
    \E in \in CycleInputs :
        LET r == process_data_send_cycle(current_readings, unsent_buffer,
                                         mock_connected, last_ntp_sync, in)
        IN /\ current_readings' = r.cur
           /\ unsent_buffer' = r.uns
           /\ mock_connected' = r.conn
           /\ last_ntp_sync' = r.last
           /\ cycle_result' = r.result
           /\ cycle_calls' = r.calls
           /\ UNCHANGED <<next_id, add_call, hist, storeVars, taskVars>>

NextCore == AddCurrent \/ Cycle

SpecCore == InitCore /\ [][NextCore]_vars

(***************************************************************************)
(* SpecAdd: add_readings_to_buffer on one buffer, called with every count  *)
(* in 1..MaxIncoming on every buffer state, as the tests call it.          *)
(***************************************************************************)
InitAdd ==
    /\ \E c \in 1..MaxCap : unsent_buffer = init_reading_buffer(c)
    /\ current_readings = init_reading_buffer(1)
    /\ mock_connected = FALSE
    /\ last_ntp_sync = 0
    /\ cycle_result = "none"
    /\ cycle_calls = <<>>
    /\ InitAddGhost
    /\ next_id = 1
    /\ InitStoreVars
    /\ InitTaskVars

\* add_readings_to_buffer(&unsent_buffer, new, n) with n fresh readings
AddCall ==
    \E n \in 1..MaxIncoming :
        /\ next_id + n - 1 <= MaxId
        /\ LET new == NewReadings(next_id, n)
           IN /\ unsent_buffer' = add_readings_to_buffer(unsent_buffer, new, n)
              /\ add_call' = [made |-> TRUE, prior |-> Contents(unsent_buffer),
                              incoming |-> new]
              /\ hist' = HistAfterAdd(hist, unsent_buffer, new)
        /\ next_id' = next_id + n
        /\ UNCHANGED <<current_readings, mock_connected, last_ntp_sync,
                       cycle_result, cycle_calls, storeVars, taskVars>>

\* clear_reading_buffer(&unsent_buffer)
ClearCall ==
    /\ unsent_buffer.count > 0
    /\ unsent_buffer' = clear_reading_buffer(unsent_buffer)
    /\ add_call' = NoAddCall
    /\ hist' = [log |-> <<>>, over |-> FALSE]
    /\ UNCHANGED <<current_readings, mock_connected, last_ntp_sync,
                   cycle_result, cycle_calls, next_id, storeVars, taskVars>>

NextAdd == AddCall \/ ClearCall

SpecAdd == InitAdd /\ [][NextAdd]_vars

\* C7: after every add_readings_to_buffer(buffer, new, n) with n > 0 on a buffer
\* holding p readings with capacity c, count = min(c, p + n) and the buffer holds
\* exactly the last min(c, p + n) readings of (prior contents followed by new).
C7_AddKeepsMostRecent ==
    add_call.made =>
        LET all == add_call.prior \o add_call.incoming
            k == Min(unsent_buffer.capacity, Len(all))
        IN /\ unsent_buffer.count = k
           /\ Contents(unsent_buffer) = LastK(all, k)

\* C8: starting from an empty buffer of capacity c, after calls of
\* add_readings_to_buffer none of which passes more than c readings, the buffer
\* holds exactly the last min(k, c) of the k readings added, in order, and
\* 0 <= count <= c.
C8_SlidingWindow ==
    /\ 0 <= unsent_buffer.count
    /\ unsent_buffer.count <= unsent_buffer.capacity
    /\ (add_call.made /\ ~hist.over) =>
          Contents(unsent_buffer) =
              LastK(hist.log, Min(Len(hist.log), unsent_buffer.capacity))

\* C8 witness: several calls, none larger than the capacity, have together added
\* more readings than fit, so the oldest were evicted
C8_Witness ==
    /\ add_call.made
    /\ ~hist.over
    /\ Len(hist.log) > unsent_buffer.capacity
    /\ unsent_buffer.capacity >= 2
    /\ add_call.prior # <<>>

\* the send_data calls among the calls of a cycle
SendCalls(calls) ==
    SelectSeq(calls, LAMBDA c : c.op \in {"send_unsent", "send_current"})

\* what the unsent buffer holds after readings new were added to old: both
\* when they fit, else the most recent ones (at least all of new when new
\* alone fits)
Appended(old, new, capacity) == LastK(old \o new, Min(capacity, Len(old) + Len(new)))

C20_SuccessfulCycle ==
    [][LET sends == SendCalls(cycle_calls')
           old == Contents(unsent_buffer)
           cur == Contents(current_readings)
       IN (/\ cycle_result' \notin {"none", "SEND_RESULT_NO_DATA",
                                    "SEND_RESULT_NO_NETWORK"}
           /\ \A i \in 1..Len(sends) : sends[i].ok) =>
             /\ cycle_result' = "SEND_RESULT_SUCCESS"
             /\ old # <<>> \/ cur # <<>>
             /\ sends = (IF old # <<>> THEN <<Call("send_unsent", old, TRUE)>> ELSE <<>>)
                        \o (IF cur # <<>> THEN <<Call("send_current", cur, TRUE)>>
                            ELSE <<>>)
             /\ current_readings'.count = 0
             /\ unsent_buffer'.count = 0]_vars

\* a cycle has connected and sent first the two unsent readings and then the
\* current reading, each with one send_data call, and both buffers are empty
C20_Witness ==
    /\ cycle_result = "SEND_RESULT_SUCCESS"
    /\ cycle_calls[1] = Call("connect", <<>>, TRUE)
    /\ SendCalls(cycle_calls) = <<Call("send_unsent", <<1, 2>>, TRUE),
                                  Call("send_current", <<3>>, TRUE)>>
    /\ current_readings.count = 0
    /\ unsent_buffer.count = 0

\* C21: a cycle of process_data_send_cycle that finds both the current and
\* the unsent buffer empty returns SEND_RESULT_NO_DATA (and only such a cycle
\* does), calls none of connect_network, send_data, sync_time and
\* disconnect_network, and leaves both buffers, the connection and
\* *last_ntp_sync as they were.
C21_NoDataFrame ==
    [][LET both_empty == current_readings.count = 0 /\ unsent_buffer.count = 0
       IN /\ (cycle_result' # "none" /\ both_empty) =>
                /\ cycle_result' = "SEND_RESULT_NO_DATA"
                /\ cycle_calls' = <<>>
                /\ current_readings' = current_readings
                /\ unsent_buffer' = unsent_buffer
                /\ last_ntp_sync' = last_ntp_sync
                /\ mock_connected' = mock_connected
          /\ cycle_result' = "SEND_RESULT_NO_DATA" => both_empty]_vars

\* readings have been sent by a cycle that synced the time and disconnected to
\* save power, and the next cycle, with nothing to send, has made no call
C21_Witness ==
    /\ cycle_result = "SEND_RESULT_NO_DATA"
    /\ cycle_calls = <<>>
    /\ current_readings.count = 0
    /\ unsent_buffer.count = 0
    /\ ~mock_connected
    /\ last_ntp_sync = 1
    /\ next_id > 1

(***************************************************************************)
(* SpecOutage: process_data_send_cycle through outages.  Cycles that fail  *)
(* to connect alternate with cycles that connect and whose send_data calls *)
(* succeed; readings arrive in the current buffer in between.  hist keeps  *)
(* the readings the cycles of the running outage found in the current      *)
(* buffer, and the number of those cycles, until the cycle after recovery. *)
(***************************************************************************)
NoOutage == [log |-> <<>>, cycles |-> 0, recovered |-> FALSE]

\* the bookkeeping a cycle starts from: a finished outage is forgotten
RunningOutage(h) == IF h.recovered THEN NoOutage ELSE h

InitOutage ==
    /\ \E c1 \in 1..MaxCap, c2 \in 1..MaxCap :
          /\ current_readings = init_reading_buffer(c1)
          /\ unsent_buffer = init_reading_buffer(c2)
    /\ mock_connected \in BOOLEAN
    /\ last_ntp_sync = 0
    /\ cycle_result = "none"
    /\ cycle_calls = <<>>
    /\ add_call = NoAddCall
    /\ hist = NoOutage
    /\ next_id = 1
    /\ InitStoreVars
    /\ InitTaskVars

\* a cycle without connectivity: connect_network leaves the network down
OutageCycle ==
    /\ ~mock_connected
    /\ \E in \in CycleInputs :
          /\ ~in.connect_ok
          /\ LET r == process_data_send_cycle(current_readings, unsent_buffer,
                                              mock_connected, last_ntp_sync, in)
                 h == RunningOutage(hist)
             IN /\ current_readings' = r.cur
                /\ unsent_buffer' = r.uns
                /\ mock_connected' = r.conn
                /\ last_ntp_sync' = r.last
                /\ cycle_result' = r.result
                /\ cycle_calls' = r.calls
                /\ hist' = IF current_readings.count > 0
                           THEN [h EXCEPT !.log = @ \o Contents(current_readings),
                                          !.cycles = @ + 1]
                           ELSE h
    /\ UNCHANGED <<next_id, add_call, storeVars, taskVars>>

\* a cycle with connectivity and a transmitter that succeeds
RecoveryCycle ==
    /\ \E in \in CycleInputs :
          /\ in.connect_ok /\ in.ok_unsent /\ in.ok_current
          /\ LET r == process_data_send_cycle(current_readings, unsent_buffer,
                                              mock_connected, last_ntp_sync, in)
             IN /\ current_readings' = r.cur
                /\ unsent_buffer' = r.uns
                /\ mock_connected' = r.conn
                /\ last_ntp_sync' = r.last
                /\ cycle_result' = r.result
                /\ cycle_calls' = r.calls
    /\ hist' = [RunningOutage(hist) EXCEPT !.recovered = TRUE]
    /\ UNCHANGED <<next_id, add_call, storeVars, taskVars>>

NextOutage == AddCurrent \/ OutageCycle \/ RecoveryCycle

SpecOutage == InitOutage /\ [][NextOutage]_vars

\* C19: after k consecutive cycles without connectivity whose readings
\* together do not exceed the unsent capacity, the unsent buffer holds all of
\* them, oldest first; and the first cycle after them that has connectivity
\* and a succeeding transmitter has passed all of them to send_data in one
\* call, in that order, and has left the unsent buffer with count 0 (looked at
\* when that cycle returns, before the next reading arrives).
C19_OutageRecovery ==
    Len(hist.log) <= unsent_buffer.capacity =>
        /\ ~hist.recovered => Contents(unsent_buffer) = hist.log
        /\ (hist.recovered /\ hist.log # <<>> /\ cycle_result # "none") =>
              /\ cycle_result = "SEND_RESULT_SUCCESS"
              /\ SelectSeq(cycle_calls, LAMBDA c : c.op = "send_unsent")
                    = <<Call("send_unsent", hist.log, TRUE)>>
              /\ unsent_buffer.count = 0

\* three cycles in a row found no network, each with one new reading, and the
\* cycle after them has connected and sent the three readings in one call
C19_Witness ==
    /\ hist = [log |-> <<1, 2, 3>>, cycles |-> 3, recovered |-> TRUE]
    /\ cycle_result = "SEND_RESULT_SUCCESS"
    /\ cycle_calls[1] = Call("connect", <<>>, TRUE)
    /\ SendCalls(cycle_calls) = <<Call("send_unsent", <<1, 2, 3>>, TRUE)>>
    /\ unsent_buffer.count = 0

(***************************************************************************)
(* SpecStore: the operations of persistent_storage.c called one after the  *)
(* other on one NVS partition, each NVS call succeeding or failing.        *)
(* SpecStoreCrash adds the loss of power at any step.                      *)
(***************************************************************************)
InitStore ==
    /\ InitStoreVars
    /\ InitTaskVars
    /\ current_readings = init_reading_buffer(1)
    /\ unsent_buffer = init_reading_buffer(1)
    /\ mock_connected = FALSE
    /\ last_ntp_sync = 0
    /\ cycle_result = "none"
    /\ cycle_calls = <<>>
    /\ InitAddGhost
    /\ next_id = 1

\* the caller saves a batch of n fresh readings (n = 0: the argument check)
SaveCall ==
    /\ \E n \in 0..MaxBatchLen :
          /\ next_id + n - 1 <= MaxStoreId
          /\ StartSave(NewReadings(next_id, n))
          /\ next_id' = IF s_initialized THEN next_id + n ELSE next_id
    /\ UNCHANGED <<current_readings, unsent_buffer, mock_connected, last_ntp_sync,
                   cycle_result, cycle_calls, add_call, hist, taskVars>>

NextStore ==
    \/ SaveCall
    \/ StorageInit /\ UNCHANGED <<coreVars, taskVars>>
    \/ SaveGet /\ UNCHANGED <<coreVars, taskVars>>
    \/ SaveBlob /\ UNCHANGED <<coreVars, taskVars>>
    \/ SaveCnt /\ UNCHANGED <<coreVars, taskVars>>
    \/ SaveCommit /\ UNCHANGED <<coreVars, taskVars>>
    \/ StartClear /\ UNCHANGED <<coreVars, taskVars>>
    \/ ClearGet /\ UNCHANGED <<coreVars, taskVars>>
    \/ ClearErase /\ UNCHANGED <<coreVars, taskVars>>
    \/ ClearCnt /\ UNCHANGED <<coreVars, taskVars>>
    \/ ClearCommit /\ UNCHANGED <<coreVars, taskVars>>
    \/ LoadCall(MaxLoadCount) /\ UNCHANGED <<coreVars, taskVars>>
    \/ GetCountCall /\ UNCHANGED <<coreVars, taskVars>>

SpecStore == InitStore /\ [][NextStore]_vars

Crash == PowerLoss /\ UNCHANGED <<coreVars, taskVars>>

NextStoreCrash == NextStore \/ Crash

SpecStoreCrash == InitStore /\ [][NextStoreCrash]_vars

C10_CrashSafety ==
    /\ st_ghost.phase = "crashed" =>
          /\ CountRead(nvs) = st_ghost.n
          /\ StoredReadings(nvs) = st_ghost.pre
          /\ LET r == persistent_storage_load_readings(nvs, MaxLoadCount, NoFails).readings
             IN /\ r = FirstK(st_ghost.pre, Len(r))
                /\ st_ghost.n \in BlobKeys(nvs)
                /\ Range(r) \cap Range(nvs.blobs[st_ghost.n]) = {}
    /\ st_ghost.phase = "resaved" =>
          /\ st_ghost.n \in BlobKeys(nvs)
          /\ nvs.blobs[st_ghost.n] = st_ghost.new

\* power was lost with batch_N written and N >= 1 batches stored, the firmware
\* has booted again and loaded all of them
C10_Witness ==
    /\ st_ghost.phase = "crashed"
    /\ st_ghost.n >= 1
    /\ st_ghost.pre # <<>>
    /\ s_initialized
    /\ st_ret.op = "load"
    /\ st_ret.err = "ESP_OK"
    /\ st_ret.count = Len(st_ghost.pre)

\* C11: round trip.  An empty store loads nothing, and every call of
\* persistent_storage_save_readings that returns ESP_OK makes a following
\* persistent_storage_load_readings (no NVS read failing, total not above
\* max_count) return what it returned before the save followed by the batch
\* saved, in-batch order kept; so k successful saves of b0..b(k-1) from the
\* empty store load as b0 ++ b1 ++ ... ++ b(k-1), loaded_count being the total.
C11_RoundTrip ==
    /\ [](nvs = EmptyNvs =>
            persistent_storage_load_readings(nvs, MaxLoadCount, NoFails)
                = [err |-> "ESP_OK", readings |-> <<>>])
    /\ [][(st_pc = "save_commit" /\ st_pc' = "idle" /\ st_ret'.err = "ESP_OK"
              /\ Len(st_op.pre) + Len(st_op.readings) <= MaxLoadCount) =>
             LET r == persistent_storage_load_readings(nvs', MaxLoadCount, NoFails)
             IN /\ r.err = "ESP_OK"
                /\ r.readings = st_op.pre \o st_op.readings
                /\ Len(r.readings) = Len(st_op.pre) + Len(st_op.readings)]_vars

\* two saves have returned ESP_OK on a store that was empty, of a batch of two
\* readings and then a batch of one, and a load has returned all three
C11_Witness ==
    /\ st_pc = "idle"
    /\ st_ret = [op |-> "load", err |-> "ESP_OK", count |-> 3]
    /\ CountRead(nvs) = 2
    /\ BlobKeys(nvs) = {0, 1}
    /\ nvs.blobs[0] = NewReadings(1, 2)
    /\ nvs.blobs[1] = NewReadings(3, 1)
    /\ st_op.name = "save"
    /\ st_op.pre = NewReadings(1, 2)

\* C29: a persistent_storage_save_readings call that returns an error,
\* whether before taking the mutex or after a failed counter read, blob
\* write, counter write or commit, leaves what persistent_storage_get_count
\* and persistent_storage_load_readings return as it was before the call.
C29_FailedSaveLeavesStore ==
    [][LET returns == /\ st_pc' = "idle"
                      /\ st_ret'.op = "save"
                      /\ st_ret'.err # "ESP_OK"
           before == IF st_pc \in {"idle", "save_get"}
                     THEN StoredReadings(nvs)
                     ELSE st_op.pre
       IN returns =>
             /\ StoredReadings(nvs') = before
             /\ persistent_storage_get_count(nvs', NoFails).count = Len(before)]_vars

\* the blobs of the batches in S, lowest batch first, from batch i on
RECURSIVE ConcatBatches(_, _, _, _)
ConcatBatches(st, S, i, n) ==
    IF i >= n
    THEN <<>>
    ELSE (IF i \in S THEN st.blobs[i] ELSE <<>>) \o ConcatBatches(st, S, i + 1, n)

\* C30: whatever batches fail to be read (size query or content read), a
\* persistent_storage_load_readings that could read the counter returns ESP_OK
\* with at most max_count readings: the readings, lowest batch first, of
\* every batch that could be read, up to the first batch that no longer fits
\* into max_count, where the load stops.
C30_LoadSkipsFailedBatches ==
    (s_initialized /\ st_pc = "idle" /\ nvs.has_count) =>
        \A max_count \in 1..MaxLoadCount, fails \in LoadFailChoices(CountRead(nvs)) :
            (~fails.get /\ fails.size \cap fails.read = {}) =>
                LET n == CountRead(nvs)
                    r == persistent_storage_load_readings(nvs, max_count, fails)
                    sized == {j \in BlobKeys(nvs) : j < n /\ j \notin fails.size}
                    good == sized \ fails.read
                    room(j) ==
                        Len(ConcatBatches(nvs, {k \in good : k < j}, 0, n))
                            + Len(nvs.blobs[j]) <= max_count
                    full == {j \in sized : ~room(j)}
                    stop == IF full = {} THEN n
                            ELSE CHOOSE j \in full : \A k \in full : j <= k
                IN /\ r.err = "ESP_OK"
                   /\ Len(r.readings) <= max_count
                   /\ r.readings = ConcatBatches(nvs, {k \in good : k < stop}, 0, n)

\* a load of two stored batches in which batch 0 could not be read has
\* returned ESP_OK with the one reading of batch 1
C30_Witness ==
    /\ st_pc = "idle"
    /\ st_ret = [op |-> "load", err |-> "ESP_OK", count |-> 1]
    /\ CountRead(nvs) = 2
    /\ BlobKeys(nvs) = {0, 1}
    /\ nvs.blobs[0] = NewReadings(1, 2)
    /\ nvs.blobs[1] = NewReadings(3, 1)

(***************************************************************************)
(* task_send_data.c: the functions the sender task calls                   *)
(***************************************************************************)
\* persistent_storage_save_readings run to its return; fail_at names the NVS
\* call that fails, if any
SaveAll(st, initialized, readings, fail_at) ==
    IF ~initialized
    THEN [nvs |-> st, err |-> "ESP_ERR_INVALID_STATE"]
    ELSE IF Len(readings) <= 0
    THEN [nvs |-> st, err |-> "ESP_ERR_INVALID_ARG"]
    ELSE IF fail_at = "get" /\ st.has_count
    THEN [nvs |-> st, err |-> "ESP_FAIL"]
    ELSE IF fail_at = "blob"
    THEN [nvs |-> st, err |-> "ESP_FAIL"]
    ELSE LET batch_count == CountRead(st)
             st1 == ApplyOps(st, SaveBlobOps(batch_count, readings))
         IN IF fail_at = "cnt"
            THEN [nvs |-> st1, err |-> "ESP_FAIL"]
            ELSE [nvs |-> ApplyOps(st1, SaveCountOps(batch_count)),
                  err |-> IF fail_at = "commit" THEN "ESP_FAIL" ELSE "ESP_OK"]

SaveFailKinds == {"none", "get", "blob", "cnt", "commit"}

\* the erase loop of persistent_storage_clear_readings from batch i on
RECURSIVE ClearEraseAll(_, _, _)
ClearEraseAll(st, i, batch_count) ==
    IF i >= batch_count
    THEN st
    ELSE ClearEraseAll(ApplyOps(st, ClearEraseOps(i)), i + 1, batch_count)

\* clear_readings returning the result of the counter's nvs_erase_key instead
\* of ignoring it
ClearAllStrict(st, initialized, fail_at) ==
    IF ~initialized
    THEN [nvs |-> st, err |-> "ESP_ERR_INVALID_STATE"]
    ELSE IF ~st.has_count
    THEN [nvs |-> st, err |-> "ESP_ERR_NVS_NOT_FOUND"]
    ELSE [nvs |-> ApplyOps(ClearEraseAll(st, 0, CountRead(st)), ClearCountOps),
          err |-> IF fail_at = "commit" THEN "ESP_FAIL" ELSE "ESP_OK"]

\* persistent_storage_clear_readings run to its return; fail_at names what
\* fails: the counter read, every nvs_erase_key, or the commit
ClearAll(st, initialized, fail_at) ==
    IF ~initialized
    THEN [nvs |-> st, err |-> "ESP_ERR_INVALID_STATE"]
    ELSE LET batch_count == IF fail_at = "get" THEN 0 ELSE CountRead(st)
             st1 == IF fail_at = "erase"
                    THEN st
                    ELSE ApplyOps(ClearEraseAll(st, 0, batch_count), ClearCountOps)
         IN [nvs |-> st1, err |-> IF fail_at = "commit" THEN "ESP_FAIL" ELSE "ESP_OK"]

ClearFailKinds == {"none", "get", "erase", "commit"}

\* C12: clearing twice.  In every state an initialized store can be in
\* between two calls, persistent_storage_clear_readings called twice in a row
\* with no NVS call failing returns ESP_OK both times and
\* persistent_storage_get_count reports 0 after the first and after the second
\* call; and, call by call, every clear that returns ESP_OK after its erase of
\* the counter went through leaves a store whose count is 0.
C12_ClearIdempotent ==
    /\ []((st_pc = "idle" /\ s_initialized) =>
            LET c1 == ClearAll(nvs, s_initialized, "none")
                c2 == ClearAll(c1.nvs, s_initialized, "none")
            IN /\ c1.err = "ESP_OK"
               /\ persistent_storage_get_count(c1.nvs, NoFails)
                     = [err |-> "ESP_OK", count |-> 0]
               /\ c2.err = "ESP_OK"
               /\ persistent_storage_get_count(c2.nvs, NoFails)
                     = [err |-> "ESP_OK", count |-> 0]
               /\ c2.nvs = c1.nvs)
    /\ [][(st_pc = "clear_commit" /\ st_pc' = "idle" /\ st_ret'.err = "ESP_OK"
              /\ ~st_ghost.cnt_erase_failed) =>
             persistent_storage_get_count(nvs', NoFails)
                = [err |-> "ESP_OK", count |-> 0]]_vars

\* a clear has returned ESP_OK and the clear called right after it has found no
\* counter, has run its erases on the empty store and is about to commit;
\* readings had been saved before
C12_Witness ==
    /\ st_pc = "clear_commit"
    /\ st_ret = [op |-> "clear", err |-> "ESP_OK", count |-> 0]
    /\ st_op.name = "clear"
    /\ st_op.batch_count = 0
    /\ nvs = EmptyNvs
    /\ next_id > 1

(***************************************************************************)
(* SpecCapacity: batches saved one after the other on an initialized store *)
(* until more readings have been handed over than                          *)
(* PERSISTENT_STORAGE_MAX_READINGS, each save with any of its NVS calls    *)
(* failing, and the count read back.                                       *)
(***************************************************************************)
\* persistent_storage_save_readings of a batch of n fresh readings
CapSave ==
    /\ \E n \in 1..MaxBatchLen, fail_at \in SaveFailKinds :
          /\ next_id + n - 1 <= MaxCapId
          /\ LET r == SaveAll(nvs, s_initialized, NewReadings(next_id, n), fail_at)
             IN /\ nvs' = r.nvs
                /\ st_ret' = [op |-> "save", err |-> r.err, count |-> n]
          /\ next_id' = next_id + n
    /\ UNCHANGED <<current_readings, unsent_buffer, mock_connected, last_ntp_sync,
                   cycle_result, cycle_calls, add_call, hist, taskVars,
                   s_initialized, s_nvs_mutex, st_pc, st_op, st_ghost>>

\* persistent_storage_get_count
CapCount ==
    /\ \E fails \in CountFailChoices(CountRead(nvs)) :
          LET r == persistent_storage_get_count(nvs, fails)
          IN st_ret' = [op |-> "get_count", err |-> r.err, count |-> r.count]
    /\ UNCHANGED <<coreVars, taskVars, nvs, s_initialized, s_nvs_mutex, st_pc, st_op,
                   st_ghost>>

\* persistent_storage_init on the erased partition
CapInit == StorageInit /\ UNCHANGED <<coreVars, taskVars>>

NextCapacity == CapInit \/ CapSave \/ CapCount

SpecCapacity == InitStore /\ [][NextCapacity]_vars

\* C13: the number of readings held in the store (what
\* persistent_storage_get_count reports when no read fails) never exceeds
\* PERSISTENT_STORAGE_MAX_READINGS, whatever batches are saved; with two
\* readings less than the maximum stored, a save of more than two leaves the
\* count at the maximum.
C13_CapacityBound ==
    persistent_storage_get_count(nvs, NoFails).count <= MaxLoadCount

\* apply_time_correction: g_time_correction_offset is only ever set to 0, so
\* the timestamp comes back as it went in
apply_time_correction(original_timestamp) == original_timestamp

\* create_corrected_readings: the readings whose timestamp is neither before
\* 2024 nor more than an hour ahead of now; nothing when malloc fails
create_corrected_readings(original_readings, now, alloc_ok) ==
    IF Len(original_readings) <= 0 \/ ~alloc_ok
    THEN <<>>
    ELSE SelectSeq(original_readings,
                   LAMBDA r : LET corrected_timestamp == apply_time_correction(r.ts)
                              IN /\ ~(corrected_timestamp < ValidTimeFloor)
                                 /\ ~(corrected_timestamp > now + FutureSlack))

\* what send_sensor_data_with_status may return
SendResults == {"ESP_OK", "ESP_FAIL", "ESP_ERR_INVALID_ARG", "ESP_ERR_NOT_ALLOWED"}

\* a retry loop that gives up at once after no error
NonRetryableNone == {}

\* the errors after which the retry loop gives up at once
NonRetryable == {"ESP_ERR_INVALID_ARG", "ESP_ERR_NOT_ALLOWED"}

\* the retry loop of send_sensor_data_with_retry from the given attempt on;
\* answers[attempt] is what the transmit of that attempt returns
RECURSIVE RetryLoop(_, _)
RetryLoop(answers, attempt) ==
    IF attempt > MaxAttempts
    THEN [success |-> FALSE, attempts |-> MaxAttempts]
    ELSE IF answers[attempt] = "ESP_OK"
    THEN [success |-> TRUE, attempts |-> attempt]
    ELSE IF answers[attempt] \in NonRetryable
    THEN [success |-> FALSE, attempts |-> attempt]
    ELSE RetryLoop(answers, attempt + 1)

\* send_sensor_data_with_retry reporting a failure when no reading is left
\* after the correction
SendWithRetryEmptyFails(readings, now, alloc_ok, answers) ==
    IF Len(readings) <= 0
    THEN [success |-> TRUE, attempts |-> 0, payload |-> <<>>]
    ELSE LET corrected_readings == create_corrected_readings(readings, now, alloc_ok)
         IN IF Len(corrected_readings) = 0
            THEN [success |-> FALSE, attempts |-> 0, payload |-> <<>>]
            ELSE LET r == RetryLoop(answers, 1)
                 IN [success |-> r.success, attempts |-> r.attempts,
                     payload |-> corrected_readings]

\* send_sensor_data_with_retry: success, the transmit calls made and the
\* readings transmitted
send_sensor_data_with_retry(readings, now, alloc_ok, answers) ==
    IF Len(readings) <= 0
    THEN [success |-> TRUE, attempts |-> 0, payload |-> <<>>]
    ELSE LET corrected_readings == create_corrected_readings(readings, now, alloc_ok)
         IN IF Len(corrected_readings) = 0
            THEN [success |-> TRUE, attempts |-> 0, payload |-> <<>>]
            ELSE LET r == RetryLoop(answers, 1)
                 IN [success |-> r.success, attempts |-> r.attempts,
                     payload |-> corrected_readings]

\* the answers of the transmitter to one send_sensor_data_with_retry call, up
\* to the attempt at which the loop ends
AttemptAnswers ==
    {a \in UNION {[1..n -> SendResults] : n \in 1..MaxAttempts} :
        /\ \A i \in 1..(Len(a) - 1) : a[i] = "ESP_FAIL"
        /\ Len(a) < MaxAttempts => a[Len(a)] # "ESP_FAIL"}

AllOk == <<"ESP_OK">>

(***************************************************************************)
(* data_processor.c: the filter of send_readings_processor                 *)
(***************************************************************************)
\* the future check of create_filtered_readings with the bound itself skipped
FutureSkippedInclusive(timestamp, now) == timestamp >= now + FutureSlack

\* create_filtered_readings: if (timestamp > now + 3600) continue
FutureSkipped(timestamp, now) == timestamp > now + FutureSlack

\* the loop of create_filtered_readings from index i on (i counts from 1)
RECURSIVE FilterLoop(_, _, _, _)
FilterLoop(original_readings, i, now, filtered) ==
    IF i > Len(original_readings)
    THEN filtered
    ELSE LET timestamp == original_readings[i].ts
         IN IF timestamp < ValidTimeFloor
            THEN FilterLoop(original_readings, i + 1, now, filtered)
            ELSE IF FutureSkipped(timestamp, now)
            THEN FilterLoop(original_readings, i + 1, now, filtered)
            ELSE FilterLoop(original_readings, i + 1, now,
                            Append(filtered, original_readings[i]))

\* create_filtered_readings: the filtered copy; the empty sequence stands for
\* NULL with *filtered_count = 0 (count <= 0, malloc failed, nothing kept)
create_filtered_readings(original_readings, now, alloc_ok) ==
    IF Len(original_readings) <= 0
    THEN <<>>
    ELSE IF ~alloc_ok
    THEN <<>>
    ELSE FilterLoop(original_readings, 1, now, <<>>)

\* send_readings_processor: success, the api_send_sensor_data calls made and
\* the readings handed to them
send_readings_processor(readings, now, alloc_ok, answers) ==
    LET filtered_readings == create_filtered_readings(readings, now, alloc_ok)
    IN IF Len(filtered_readings) = 0
       THEN [success |-> TRUE, attempts |-> 0, payload |-> <<>>]
       ELSE LET r == RetryLoop(answers, 1)
            IN [success |-> r.success, attempts |-> r.attempts,
                payload |-> filtered_readings]

(***************************************************************************)
(* SpecSend: the send functions called one after the other on arrays of    *)
(* readings with timestamps around the limits of the filter, the malloc of *)
(* the filtered copy succeeding or failing, the retry loop stepped attempt *)
(* by attempt with every answer of the transmitter.                        *)
(***************************************************************************)
\* a clock set by SNTP: some day after 2024-01-01
NowValid == ValidTimeFloor + 86400

\* the functions that filter and then transmit readings
SensorSenders == {"send_sensor_data_with_retry", "send_readings_processor"}

\* timestamps around the two limits of the filter
FilterTimes(now) ==
    {0, ValidTimeFloor - 1, ValidTimeFloor, now - 60, now + FutureSlack,
     now + FutureSlack + 1, now + 7200}

\* the arrays handed to a send function; id is the position in the array
SendInputs(now) ==
    UNION {{[i \in 1..n |-> [id |-> i, ts |-> f[i]]] : f \in [1..n -> FilterTimes(now)]} :
              n \in 0..MaxFilterLen}

\* the sender task outside any send function
IdleSend ==
    [pc |-> "idle", fn |-> "none", readings |-> <<>>, alloc_ok |-> TRUE,
     filtered |-> <<>>, attempt |-> 0, calls |-> <<>>, success |-> FALSE]

InitSend ==
    /\ InitStoreVars
    /\ current_readings = init_reading_buffer(1)
    /\ unsent_buffer = init_reading_buffer(1)
    /\ mock_connected = FALSE
    /\ last_ntp_sync = 0
    /\ cycle_result = "none"
    /\ cycle_calls = <<>>
    /\ InitAddGhost
    /\ next_id = 1
    /\ reading_buffer = [i \in 1..BufferSize |-> ZeroReading]
    /\ reading_idx = 0
    /\ buffer_mutex = "free"
    /\ wifi_send_failed = FALSE
    /\ sys_time \in {0, NowValid}
    /\ smp = InitSampler
    /\ snd = IdleSend
    /\ env_good = FALSE
    /\ tk_ghost = InitTaskGhost

sendFrame == <<coreVars, storeVars, reading_buffer, reading_idx, buffer_mutex,
               wifi_send_failed, sys_time, smp, env_good, tk_ghost>>

\* send_sensor_data_with_retry or send_readings_processor up to the retry
\* loop: the filtered copy is made; with nothing in it the function returns true
SensorSendCall ==
    /\ snd.pc = "idle"
    /\ \E fn \in SensorSenders, readings \in SendInputs(sys_time), alloc_ok \in BOOLEAN :
          LET filtered == IF fn = "send_readings_processor"
                          THEN create_filtered_readings(readings, sys_time, alloc_ok)
                          ELSE create_corrected_readings(readings, sys_time, alloc_ok)
          IN snd' = [IdleSend EXCEPT
                        !.fn = fn, !.readings = readings, !.alloc_ok = alloc_ok,
                        !.filtered = filtered,
                        !.pc = IF Len(filtered) = 0 THEN "done" ELSE "attempt",
                        !.attempt = IF Len(filtered) = 0 THEN 0 ELSE 1,
                        !.success = Len(filtered) = 0]
    /\ UNCHANGED sendFrame

\* send_status_update_with_retry up to the retry loop
StatusSendCall ==
    /\ snd.pc = "idle"
    /\ snd' = [IdleSend EXCEPT !.fn = "send_status_update_with_retry",
                               !.pc = "attempt", !.attempt = 1]
    /\ UNCHANGED sendFrame

\* one turn of the retry loop: the transmit call and what follows its result
SendAttempt ==
    /\ snd.pc = "attempt"
    /\ snd.attempt <= MaxAttempts
    /\ \E result \in SendResults :
          snd' = [snd EXCEPT
                     !.calls = Append(@, result),
                     !.success = result = "ESP_OK",
                     !.pc = IF result = "ESP_OK" \/ result \in NonRetryable
                                  \/ snd.attempt + 1 > MaxAttempts
                            THEN "done" ELSE "attempt",
                     !.attempt = IF result = "ESP_OK" \/ result \in NonRetryable
                                 THEN @ ELSE @ + 1]
    /\ UNCHANGED sendFrame

\* the send function returns snd.success
SendReturn ==
    /\ snd.pc = "done"
    /\ snd' = IdleSend
    /\ UNCHANGED sendFrame

NextSend == SensorSendCall \/ StatusSendCall \/ SendAttempt \/ SendReturn

SpecSend == InitSend /\ [][NextSend]_vars

\* C14: in each of the three send functions the transmit function is called at
\* most 3 times; each call before the last has failed with a retryable error;
\* when the function has returned after at least one call, it reports success
\* exactly when the last call answered ESP_OK; a non-retryable answer
\* (ESP_ERR_INVALID_ARG, ESP_ERR_NOT_ALLOWED) ends the calls, so that on the
\* first attempt it gives exactly 1 call; retryable failures only give exactly
\* 3 calls and failure.  The step-by-step loop agrees with RetryLoop.
C14_RetryPolicy ==
    LET calls == snd.calls
        n == Len(calls)
    IN /\ n <= 3
       /\ \A i \in 1..(n - 1) : calls[i] # "ESP_OK" /\ calls[i] \notin NonRetryable
       /\ (snd.pc = "done" /\ n > 0) =>
             /\ snd.success <=> calls[n] = "ESP_OK"
             /\ (calls[1] \in {"ESP_ERR_INVALID_ARG", "ESP_ERR_NOT_ALLOWED"}) =>
                   (n = 1 /\ ~snd.success)
             /\ (\A i \in 1..n : calls[i] \in {"ESP_ERR_INVALID_ARG", "ESP_ERR_NOT_ALLOWED"}
                                    => i = n)
             /\ (\A i \in 1..n : calls[i] = "ESP_FAIL") => (n = 3 /\ ~snd.success)
             /\ RetryLoop(calls, 1) = [success |-> snd.success, attempts |-> n]

\* send_readings_processor has returned false after three transmit calls that
\* all failed with a retryable error
C14_Witness ==
    /\ snd.pc = "done"
    /\ snd.fn = "send_readings_processor"
    /\ snd.calls = <<"ESP_FAIL", "ESP_FAIL", "ESP_FAIL">>
    /\ ~snd.success

\* C15: when its malloc succeeds, create_filtered_readings (and likewise
\* create_corrected_readings) returns exactly the readings whose timestamp t
\* has 1704067200 <= t <= now + 3600, each once, in the order of the input: a
\* reading stamped 0 or now + 7200 is dropped, and with a valid clock a reading
\* stamped now - 60 is kept.
C15_FilterCorrect ==
    (snd.fn \in SensorSenders /\ snd.alloc_ok) =>
        LET in == snd.readings
            out == snd.filtered
            Kept(r) == 1704067200 <= r.ts /\ r.ts <= sys_time + 3600
        IN /\ Range(out) = {r \in Range(in) : Kept(r)}
           /\ \A i, j \in 1..Len(out) : i < j => out[i].id < out[j].id
           /\ \A r \in Range(in) :
                 /\ r.ts = 0 => r \notin Range(out)
                 /\ r.ts = sys_time + 7200 => r \notin Range(out)
                 /\ (r.ts = sys_time - 60 /\ sys_time >= 1704067200 + 60) =>
                       r \in Range(out)

\* create_filtered_readings has been handed a reading stamped now - 60 followed
\* by one stamped now + 7200, the clock being valid, and has kept the first
C15_Witness ==
    /\ snd.fn = "send_readings_processor"
    /\ snd.alloc_ok
    /\ sys_time = NowValid
    /\ snd.readings = <<[id |-> 1, ts |-> sys_time - 60], [id |-> 2, ts |-> sys_time + 7200]>>
    /\ snd.filtered = <<[id |-> 1, ts |-> sys_time - 60]>>

\* C16: when the malloc of the filtered (or corrected) copy fails inside a
\* send function that was handed a reading with a valid timestamp, the send is
\* a failed attempt: the
\* function reports failure, so that its caller neither clears the stored
\* batches nor drops the readings.
C16_AllocFailureFailsSend ==
    (snd.pc = "done" /\ snd.fn \in SensorSenders /\ ~snd.alloc_ok
        /\ \E r \in Range(snd.readings) :
              r.ts >= ValidTimeFloor /\ r.ts <= sys_time + FutureSlack) => ~snd.success

\* send_stored_readings.  in.pre: which step before the send fails (the count,
\* the malloc, the load), in.alloc_ok: the malloc of create_corrected_readings,
\* in.answers: the transmitter, in.clear: what fails in the clear
send_stored_readings(st, initialized, now, in) ==
    LET no == [ok |-> FALSE, nvs |-> st, handed |-> <<>>]
        yes == [ok |-> TRUE, nvs |-> st, handed |-> <<>>]
        cnt == persistent_storage_get_count(st, [NoFails EXCEPT !.get = in.pre = "count"])
        ld == persistent_storage_load_readings(st, MaxLoadCount,
                                               [NoFails EXCEPT !.get = in.pre = "load"])
    IN IF ~initialized \/ cnt.err # "ESP_OK"
       THEN no
       ELSE IF cnt.count = 0
       THEN yes
       ELSE IF in.pre = "malloc" \/ ld.err # "ESP_OK"
       THEN no
       ELSE IF Len(ld.readings) = 0
       THEN yes
       ELSE LET r == send_sensor_data_with_retry(ld.readings, now, in.alloc_ok, in.answers)
                cl == ClearAll(st, initialized, in.clear)
            IN IF r.success
               THEN [ok |-> cl.err = "ESP_OK", nvs |-> cl.nvs, handed |-> ld.readings]
               ELSE [ok |-> FALSE, nvs |-> st, handed |-> ld.readings]

\* what may happen around one send_stored_readings call
StoredSendInputs ==
    {in \in [pre : {"none", "count", "malloc", "load"}, alloc_ok : BOOLEAN,
             answers : AttemptAnswers, clear : ClearFailKinds] :
        /\ in.pre # "none" => in.alloc_ok /\ in.answers = AllOk /\ in.clear = "none"
        /\ ~in.alloc_ok => in.answers = AllOk
        /\ in.answers[Len(in.answers)] # "ESP_OK" => in.clear = "none"}

\* every step succeeds
StoredSendGood == [pre |-> "none", alloc_ok |-> TRUE, answers |-> AllOk, clear |-> "none"]

\* what may happen around one send of the live readings
LiveSendInputs ==
    {in \in [alloc_ok : BOOLEAN, answers : AttemptAnswers] :
        ~in.alloc_ok => in.answers = AllOk}

LiveSendGood == [alloc_ok |-> TRUE, answers |-> AllOk]

(***************************************************************************)
(* The sampler task: task_get_sensor_data.c and add_sensor_reading of      *)
(* sensor_buffer_core.c, one step per access to the shared buffer          *)
(***************************************************************************)
\* what the task actions leave alone outside the tasks and the NVS partition
taskFrame == <<coreVars, s_nvs_mutex, st_pc, st_op, st_ret, st_ghost>>

\* the same without the storage mutex, for the steps that take or give it
taskCallFrame == <<coreVars, st_pc, st_op, st_ret, st_ghost>>

\* xSemaphoreTake(buffer_mutex, portMAX_DELAY) returns only once the mutex is
\* free, whoever asks
MutexIgnored(m) == TRUE

MutexAvailable(m) == m = "free"

\* add_sensor_reading with the capacity check off by one
HasSpaceOffByOne(count, capacity) == count <= capacity

\* add_sensor_reading: if (*(buffer->current_count) < buffer->capacity)
HasSpace(count, capacity) == count < capacity

\* the full branch with the flush the buffer never does: the new reading in
\* slot 0 and the count restarted
AddWhenFullRestart(buffer, count, reading) ==
    [buffer |-> [buffer EXCEPT ![1] = reading], count |-> 1]

\* a full branch that overwrites the newest stored reading
AddWhenFullOverwrite(buffer, count, reading) ==
    [buffer |-> [buffer EXCEPT ![count] = reading], count |-> count]

\* add_sensor_reading, buffer full: a warning is logged, buffer and count
\* stay as they are and the reading is not stored
AddWhenFull(buffer, count, reading) == [buffer |-> buffer, count |-> count]

\* the drain with the index left as it is
DrainResetKept(idx) == idx

\* the drain: *(context->reading_idx) = 0
DrainReset(idx) == 0

\* vTaskDelay, get_ambient_light, time(&now): the reading to add; a failed
\* sensor read starts the wait over and changes nothing
SamplerSample ==
    /\ smp.pc = "wait"
    /\ smp.next <= MaxTaskId
    /\ smp' = [pc |-> "sampled", reading |-> [id |-> smp.next, ts |-> sys_time],
               result |-> "none", next |-> smp.next + 1]
    /\ UNCHANGED <<reading_buffer, reading_idx, buffer_mutex, wifi_send_failed, sys_time,
                   snd, env_good, tk_ghost, nvs, s_initialized, taskFrame>>

\* add_sensor_reading: interface->acquire_buffer_lock()
SamplerTake ==
    /\ smp.pc = "sampled"
    /\ MutexAvailable(buffer_mutex)
    /\ buffer_mutex' = "sampler"
    /\ smp' = [smp EXCEPT !.pc = "locked"]
    /\ UNCHANGED <<reading_buffer, reading_idx, wifi_send_failed, sys_time,
                   snd, env_good, tk_ghost, nvs, s_initialized, taskFrame>>

\* add_sensor_reading: the capacity check, then the write of the slot or the
\* full branch
SamplerAdd ==
    /\ smp.pc = "locked"
    /\ IF HasSpace(reading_idx, BufferSize)
       THEN /\ reading_buffer' = [reading_buffer EXCEPT ![reading_idx + 1] = smp.reading]
            /\ smp' = [smp EXCEPT !.pc = "written"]
            /\ UNCHANGED reading_idx
       ELSE LET b == AddWhenFull(reading_buffer, reading_idx, smp.reading)
            IN /\ reading_buffer' = b.buffer
               /\ reading_idx' = b.count
               /\ smp' = [smp EXCEPT !.pc = "release", !.result = "BUFFER_RESULT_FULL"]
    /\ UNCHANGED <<buffer_mutex, wifi_send_failed, sys_time,
                   snd, env_good, tk_ghost, nvs, s_initialized, taskFrame>>

\* add_sensor_reading: (*(buffer->current_count))++
SamplerInc ==
    /\ smp.pc = "written"
    /\ reading_idx' = reading_idx + 1
    /\ smp' = [smp EXCEPT !.pc = "release", !.result = "BUFFER_RESULT_SUCCESS"]
    /\ tk_ghost' = [tk_ghost EXCEPT !.appended = Append(@, smp.reading),
                                    !.since = @ + 1]
    /\ UNCHANGED <<reading_buffer, buffer_mutex, wifi_send_failed, sys_time,
                   snd, env_good, nvs, s_initialized, taskFrame>>

\* add_sensor_reading: interface->release_buffer_lock(); return result; the
\* task's switch on the result does nothing in any case, and the reading and
\* the result go out of scope
SamplerGive ==
    /\ smp.pc = "release"
    /\ buffer_mutex' = "free"
    /\ smp' = [InitSampler EXCEPT !.next = smp.next]
    /\ UNCHANGED <<reading_buffer, reading_idx, wifi_send_failed, sys_time,
                   snd, env_good, tk_ghost, nvs, s_initialized, taskFrame>>

SamplerNext ==
    \/ SamplerSample
    \/ SamplerTake
    \/ SamplerAdd
    \/ SamplerInc
    \/ SamplerGive

(***************************************************************************)
(* The sender task: task_send_data.  The status messages it sends and its  *)
(* last_send_time change nothing below and are left out; so is the         *)
(* night-time turn of the loop that stays awake, which only sets           *)
(* last_send_time.                                                         *)
(***************************************************************************)
\* sync_time_if_needed / initialize_sntp: the clock after a connection
SyncedTime(now, ntp_ok) == IF ntp_ok THEN ValidTimeFloor ELSE now

\* malloc(context->buffer_size * sizeof(sensor_reading_t)); the model fills
\* the block with zero readings
NewTempBuffer == [i \in 1..BufferSize |-> ZeroReading]

\* the sender back at the top of its loop, temp_buffer freed
AtLoop == [InitSender EXCEPT !.pc = "loop"]

\* task_send_data: persistent_storage_init
BootInit ==
    /\ snd.pc = "boot"
    /\ \E ok \in (IF env_good THEN {TRUE} ELSE BOOLEAN) : s_initialized' = ok
    /\ snd' = [snd EXCEPT !.pc = "boot_wifi"]
    /\ UNCHANGED <<reading_buffer, reading_idx, buffer_mutex, wifi_send_failed, sys_time,
                   smp, env_good, tk_ghost, nvs, taskFrame>>

\* task_send_data: the initial connection; connected: the time sync, not
\* connected: the flag set
BootConnect ==
    /\ snd.pc = "boot_wifi"
    /\ \E connected \in (IF env_good THEN {TRUE} ELSE BOOLEAN),
          ntp_ok \in (IF env_good THEN {TRUE} ELSE BOOLEAN) :
          IF connected
          THEN /\ sys_time' = SyncedTime(sys_time, ntp_ok)
               /\ snd' = [snd EXCEPT !.pc = "boot_stored"]
               /\ UNCHANGED wifi_send_failed
          ELSE /\ wifi_send_failed' = TRUE
               /\ snd' = AtLoop
               /\ UNCHANGED sys_time
    /\ UNCHANGED <<reading_buffer, reading_idx, buffer_mutex,
                   smp, env_good, tk_ghost, nvs, s_initialized, taskFrame>>

\* task_send_data: send_stored_readings at boot, whatever it returns the flag
\* is reset
BootSendStored ==
    /\ snd.pc = "boot_stored"
    /\ \E in \in (IF env_good THEN {StoredSendGood} ELSE StoredSendInputs) :
          nvs' = send_stored_readings(nvs, s_initialized, sys_time, in).nvs
    /\ wifi_send_failed' = FALSE
    /\ snd' = AtLoop
    /\ UNCHANGED <<reading_buffer, reading_idx, buffer_mutex, sys_time,
                   smp, env_good, tk_ghost, s_initialized, taskFrame>>

\* the loop when the send interval has passed: wifi_manager_init and the wait
\* for the connection; connected: the time sync; not connected: the flag set
\* and the malloc of the block the readings are saved from
LoopConnect ==
    /\ snd.pc = "loop"
    /\ \E connected \in (IF env_good THEN {TRUE} ELSE BOOLEAN),
          ok \in (IF env_good THEN {TRUE} ELSE BOOLEAN) :
          IF connected
          THEN /\ sys_time' = SyncedTime(sys_time, ok)
               /\ snd' = [snd EXCEPT !.pc = "conn_stored",
                                     !.store_nonempty = StoredReadings(nvs) # <<>>]
               /\ UNCHANGED wifi_send_failed
          ELSE /\ wifi_send_failed' = TRUE
               /\ snd' = IF ok
                         THEN [snd EXCEPT !.pc = "take", !.branch = "noconn",
                                          !.temp_buffer = NewTempBuffer]
                         ELSE AtLoop
               /\ UNCHANGED sys_time
    /\ UNCHANGED <<reading_buffer, reading_idx, buffer_mutex,
                   smp, env_good, tk_ghost, nvs, s_initialized, taskFrame>>

\* connected: send_stored_readings if the flag is set, then the malloc of
\* temp_buffer; when that fails the flag is set and the loop starts over
ConnSendStored ==
    /\ snd.pc = "conn_stored"
    /\ \E in \in (IF env_good THEN {StoredSendGood} ELSE StoredSendInputs),
          malloc_ok \in (IF env_good THEN {TRUE} ELSE BOOLEAN) :
          /\ IF wifi_send_failed
             THEN nvs' = send_stored_readings(nvs, s_initialized, sys_time, in).nvs
             ELSE in = StoredSendGood /\ UNCHANGED nvs
          /\ IF malloc_ok
             THEN /\ snd' = [snd EXCEPT !.pc = "take", !.branch = "conn",
                                        !.temp_buffer = NewTempBuffer,
                                        !.stored_called = wifi_send_failed]
                  /\ UNCHANGED wifi_send_failed
             ELSE /\ snd' = AtLoop
                  /\ wifi_send_failed' = TRUE
    /\ UNCHANGED <<reading_buffer, reading_idx, buffer_mutex, sys_time,
                   smp, env_good, tk_ghost, s_initialized, taskFrame>>

\* xSemaphoreTake(context->buffer_mutex, portMAX_DELAY)
DrainTake ==
    /\ snd.pc = "take"
    /\ MutexAvailable(buffer_mutex)
    /\ buffer_mutex' = "sender"
    /\ snd' = [snd EXCEPT !.pc = "copy"]
    /\ UNCHANGED <<reading_buffer, reading_idx, wifi_send_failed, sys_time,
                   smp, env_good, tk_ghost, nvs, s_initialized, taskFrame>>

\* if (*(context->reading_idx) > 0) memcpy(temp_buffer, reading_buffer, ...)
DrainCopy ==
    /\ snd.pc = "copy"
    /\ IF reading_idx > 0
       THEN /\ snd' = [snd EXCEPT !.pc = "count",
                          !.temp_buffer = MemCopy(@, 0, reading_buffer, 0, reading_idx)]
            /\ UNCHANGED tk_ghost
       ELSE /\ snd' = [snd EXCEPT !.pc = "give"]
            /\ tk_ghost' = [tk_ghost EXCEPT !.since = 0]
    /\ UNCHANGED <<reading_buffer, reading_idx, buffer_mutex, wifi_send_failed, sys_time,
                   smp, env_good, nvs, s_initialized, taskFrame>>

\* temp_count = *(context->reading_idx)
DrainCount ==
    /\ snd.pc = "count"
    /\ snd' = [snd EXCEPT !.pc = "reset", !.temp_count = reading_idx]
    /\ UNCHANGED <<reading_buffer, reading_idx, buffer_mutex, wifi_send_failed, sys_time,
                   smp, env_good, tk_ghost, nvs, s_initialized, taskFrame>>

\* *(context->reading_idx) = 0: the drain is done
DrainClear ==
    /\ snd.pc = "reset"
    /\ reading_idx' = DrainReset(reading_idx)
    /\ snd' = [snd EXCEPT !.pc = "give"]
    /\ tk_ghost' = [tk_ghost EXCEPT
                       !.drained = @ \o FirstK(snd.temp_buffer, snd.temp_count),
                       !.since = 0]
    /\ UNCHANGED <<reading_buffer, buffer_mutex, wifi_send_failed, sys_time,
                   smp, env_good, nvs, s_initialized, taskFrame>>

\* the give left until after the send: the mutex stays as it is
GiveAfterSend(m) == m

\* xSemaphoreGive(context->buffer_mutex) right after the copy and the reset,
\* before temp_buffer is sent or saved
GiveBeforeSend(m) == "free"

\* xSemaphoreGive(context->buffer_mutex)
DrainGive ==
    /\ snd.pc = "give"
    /\ buffer_mutex' = GiveBeforeSend(buffer_mutex)
    /\ snd' = [snd EXCEPT !.pc = IF snd.branch = "conn" THEN "send" ELSE "save"]
    /\ UNCHANGED <<reading_buffer, reading_idx, wifi_send_failed, sys_time,
                   smp, env_good, tk_ghost, nvs, s_initialized, taskFrame>>

\* connected: send_sensor_data_with_retry on the drained readings, free,
\* wifi_send_failed = !send_success, disconnect
ConnSend ==
    /\ snd.pc = "send"
    /\ \E in \in (IF env_good THEN {LiveSendGood} ELSE LiveSendInputs) :
          LET live == FirstK(snd.temp_buffer, snd.temp_count)
              send_success ==
                  IF snd.temp_count > 0
                  THEN send_sensor_data_with_retry(live, sys_time, in.alloc_ok,
                                                   in.answers).success
                  ELSE TRUE
          IN /\ snd.temp_count = 0 => in = LiveSendGood
             /\ wifi_send_failed' = ~send_success
    /\ snd' = AtLoop
    /\ UNCHANGED <<reading_buffer, reading_idx, buffer_mutex, sys_time,
                   smp, env_good, tk_ghost, nvs, s_initialized, taskFrame>>

\* not connected, readings drained: persistent_storage_save_readings is
\* called and, the storage being initialised, takes s_nvs_mutex
NoConnSaveTake ==
    /\ snd.pc = "save"
    /\ IF snd.temp_count > 0 /\ s_initialized
       THEN s_nvs_mutex = "free" /\ s_nvs_mutex' = "held"
       ELSE UNCHANGED s_nvs_mutex
    /\ snd' = [snd EXCEPT !.pc = "saving"]
    /\ UNCHANGED <<reading_buffer, reading_idx, buffer_mutex, wifi_send_failed, sys_time,
                   smp, env_good, tk_ghost, nvs, s_initialized, taskCallFrame>>

\* not connected: persistent_storage_save_readings on the drained readings
\* up to its xSemaphoreGive and return, its failure only logged; free
NoConnSave ==
    /\ snd.pc = "saving"
    /\ \E fail_at \in (IF env_good THEN {"none"} ELSE SaveFailKinds) :
          IF snd.temp_count > 0
          THEN nvs' = SaveAll(nvs, s_initialized,
                              FirstK(snd.temp_buffer, snd.temp_count), fail_at).nvs
          ELSE fail_at = "none" /\ UNCHANGED nvs
    /\ s_nvs_mutex' = "free"
    /\ snd' = AtLoop
    /\ UNCHANGED <<reading_buffer, reading_idx, buffer_mutex, wifi_send_failed, sys_time,
                   smp, env_good, tk_ghost, s_initialized, taskCallFrame>>

SenderNext ==
    \/ BootInit
    \/ BootConnect
    \/ BootSendStored
    \/ LoopConnect
    \/ ConnSendStored
    \/ DrainTake
    \/ DrainCopy
    \/ DrainCount
    \/ DrainClear
    \/ DrainGive
    \/ ConnSend
    \/ NoConnSaveTake
    \/ NoConnSave

\* the night's deep sleep ends (enter_night_sleep), or the chip is reset: the
\* firmware starts over; RAM is lost, the NVS partition and the RTC clock are
\* kept.  A power cut that also stops the clock is not part of this model.
\* Restarts belong to the outage: once it has ended the firmware runs on.
Restart ==
    /\ ~env_good
    /\ UNCHANGED sys_time
    /\ reading_buffer' = [i \in 1..BufferSize |-> ZeroReading]
    /\ reading_idx' = 0
    /\ buffer_mutex' = "free"
    /\ wifi_send_failed' = FALSE
    /\ smp' = [InitSampler EXCEPT !.next = smp.next]
    /\ snd' = InitSender
    /\ tk_ghost' = InitTaskGhost
    /\ s_initialized' = FALSE
    /\ s_nvs_mutex' = "free"
    /\ UNCHANGED <<env_good, nvs, taskCallFrame>>

\* the outage ends: from here on every connect, transmit, NTP query, malloc
\* and NVS call succeeds and the firmware is not restarted
EnvSettles ==
    /\ ~env_good
    /\ env_good' = TRUE
    /\ UNCHANGED <<reading_buffer, reading_idx, buffer_mutex, wifi_send_failed, sys_time,
                   smp, snd, tk_ghost, nvs, s_initialized, taskFrame>>

InitTask ==
    /\ InitStoreVars
    /\ InitTaskVars
    /\ current_readings = init_reading_buffer(1)
    /\ unsent_buffer = init_reading_buffer(1)
    /\ mock_connected = FALSE
    /\ last_ntp_sync = 0
    /\ cycle_result = "none"
    /\ cycle_calls = <<>>
    /\ InitAddGhost
    /\ next_id = 1

NextTask == SamplerNext \/ SenderNext \/ Restart \/ EnvSettles

SpecTask == InitTask /\ [][NextTask]_vars

\* the scheduler runs every task that is ready; restarts and the end of the
\* outage are up to the environment
SpecTaskFair == SpecTask /\ WF_vars(SamplerNext) /\ WF_vars(SenderNext)

\* C1: once every connect, transmit, NTP query, malloc and NVS call succeeds
\* for good and the firmware keeps running with its storage initialised, the
\* readings in the persistent store do not stay there: the store is
\* eventually found empty.
C1_StoreEventuallyDrained ==
    (env_good /\ s_initialized) ~> (StoredReadings(nvs) = <<>>)

\* C2: when the send of the drained live readings has failed in a connected
\* cycle, every drained reading is still held somewhere it can be sent from
\* later: in the persistent store or back in the reading buffer.
C2_FailedLiveSendPreserved ==
    [][(snd.pc = "send" /\ snd'.pc = "loop" /\ wifi_send_failed') =>
          Range(FirstK(snd.temp_buffer, snd.temp_count))
             \subseteq (Range(StoredReadings(nvs'))
                          \cup Range(FirstK(reading_buffer', reading_idx')))]_vars

\* C3: in a connected cycle of task_send_data that found readings in the
\* persistent store when it connected, send_stored_readings has been called
\* by the time the drained live readings are handed to the send function.
C3_StoredBeforeLive ==
    (snd.pc = "send" /\ snd.temp_count > 0 /\ snd.store_nonempty) => snd.stored_called

\* C4: the index of the reading buffer stays within 0..buffer_size under every
\* interleaving of the sampler's add and the sender's drain.
C4_IndexInBounds == reading_idx >= 0 /\ reading_idx <= BufferSize

\* the buffer is full after an earlier drain has emptied it
C4_Witness ==
    /\ reading_idx = BufferSize
    /\ buffer_mutex = "free"
    /\ tk_ghost.drained # <<>>

\* C5: whenever the mutex is free, the readings copied out by the drains so
\* far followed by the readings still in the buffer are exactly the readings
\* appended with SUCCESS, in append order (each copied out once, none twice,
\* none skipped); and every drain copies out as many readings as were appended
\* since the previous drain, none when there was no append.
C5_AtomicDrain ==
    /\ [](buffer_mutex = "free" =>
             tk_ghost.drained \o FirstK(reading_buffer, reading_idx) = tk_ghost.appended)
    /\ [][(snd.pc \in {"copy", "reset"} /\ snd'.pc = "give") =>
             snd'.temp_count = tk_ghost.since]_vars

\* the sender holds the mutex at the end of a drain that found nothing, after
\* an earlier drain copied out two readings, while the sampler waits for the
\* mutex with the next reading
C5_Witness ==
    /\ snd.pc = "give"
    /\ snd.temp_count = 0
    /\ Len(tk_ghost.drained) >= 2
    /\ smp.pc = "sampled"

DrainPcs == {"copy", "count", "reset", "give"}

\* the sender where its next step is a connect, a time sync, a transmit or a
\* persistent storage call
CallPcs == {"boot", "boot_wifi", "boot_stored", "loop", "conn_stored", "send",
            "save", "saving"}

\* C27 as the specification has it: the sender holds buffer_mutex only during
\* the copy and the reset of its drain, and in no state are buffer_mutex and
\* the storage mutex both held.
C27_MutexesNeverTogether ==
    /\ buffer_mutex = "sender" => snd.pc \in DrainPcs
    /\ ~(buffer_mutex # "free" /\ s_nvs_mutex = "held")

\* C27 as the code has it: the sender holds buffer_mutex exactly during the
\* copy and the reset of its drain, never where it connects, syncs the time,
\* transmits or calls the persistent storage; no task holds buffer_mutex and
\* the storage mutex together: while the sender is inside
\* persistent_storage_save_readings buffer_mutex is free or held by the
\* sampler; and a sampler that waits for buffer_mutex waits for a drain,
\* never for a network request.
C27_SenderLocksOnlyToCopy ==
    /\ buffer_mutex = "sender" <=> snd.pc \in DrainPcs
    /\ snd.pc \in CallPcs => buffer_mutex # "sender"
    /\ s_nvs_mutex = "held" => snd.pc = "saving" /\ buffer_mutex # "sender"
    /\ (smp.pc = "sampled" /\ ~MutexAvailable(buffer_mutex)) => snd.pc \in DrainPcs

\* the sender inside persistent_storage_save_readings with two drained
\* readings while the sampler, holding buffer_mutex, adds the next one
C27_Witness ==
    /\ snd.pc = "saving"
    /\ snd.temp_count = 2
    /\ s_nvs_mutex = "held"
    /\ smp.pc = "locked"
    /\ buffer_mutex = "sampler"

(***************************************************************************)
(* add_sensor_reading of sensor_buffer_core.c on its own, one step per     *)
(* statement that touches the buffer or the lock interface.  The interface *)
(* is the one of test_sensor_buffer_core.c: acquire_buffer_lock may        *)
(* refuse, and both functions count their calls.  smp carries the running  *)
(* call: lock_success is what acquire_buffer_lock answered, the two        *)
(* counters are those of the interface since the call began, and           *)
(* before_buffer and before_count are the buffer and the count as the call *)
(* found them when it asked for the lock.                                  *)
(***************************************************************************)
IdleCall ==
    [pc |-> "wait", reading |-> ZeroReading, result |-> "none", next |-> 1,
     lock_success |-> FALSE, lock_call_count |-> 0, unlock_call_count |-> 0,
     before_buffer |-> <<>>, before_count |-> 0]

\* init_sensor_buffer over zeroed storage with *count_ptr = 0
InitBuffer ==
    /\ InitStoreVars
    /\ current_readings = init_reading_buffer(1)
    /\ unsent_buffer = init_reading_buffer(1)
    /\ mock_connected = FALSE
    /\ last_ntp_sync = 0
    /\ cycle_result = "none"
    /\ cycle_calls = <<>>
    /\ InitAddGhost
    /\ next_id = 1
    /\ \E capacity \in 1..MaxBufferCap :
          reading_buffer = [i \in 1..capacity |-> ZeroReading]
    /\ reading_idx = 0
    /\ buffer_mutex = "free"
    /\ wifi_send_failed = FALSE
    /\ sys_time = 0
    /\ smp = IdleCall
    /\ snd = InitSender
    /\ env_good = TRUE
    /\ tk_ghost = InitTaskGhost

\* what the steps of add_sensor_reading leave alone
bufferFrame == <<coreVars, storeVars, wifi_send_failed, sys_time, snd, env_good>>

\* the write that always lands in slot 0
WriteSlotFirst(buffer, count, reading) == [buffer EXCEPT ![1] = reading]

\* add_sensor_reading: buffer->buffer[*(buffer->current_count)] gets the
\* timestamp and the lux value; C index count is position count + 1 here
WriteSlot(buffer, count, reading) == [buffer EXCEPT ![count + 1] = reading]

\* a full branch that returns before the release
ReleaseOnSuccessOnly(result) == result = "BUFFER_RESULT_SUCCESS"

\* add_sensor_reading: interface->release_buffer_lock() follows the
\* if/else, so it is reached whatever the result
ReleaseReached(result) == TRUE

\* add_sensor_reading is called; with a NULL buffer, storage, count or
\* interface it returns BUFFER_RESULT_ERROR before any call of the interface
BufferCall ==
    /\ smp.pc = "wait"
    /\ smp.next <= MaxBufferId
    /\ \E valid \in BOOLEAN :
          smp' = [IdleCall EXCEPT
                     !.pc = IF valid THEN "entered" ELSE "returned",
                     !.result = IF valid THEN "none" ELSE "BUFFER_RESULT_ERROR",
                     !.reading = [id |-> smp.next, ts |-> sys_time],
                     !.next = smp.next + 1,
                     !.before_buffer = reading_buffer,
                     !.before_count = reading_idx]
    /\ UNCHANGED <<reading_buffer, reading_idx, buffer_mutex, tk_ghost, bufferFrame>>

\* if (!interface->acquire_buffer_lock()) return BUFFER_RESULT_ERROR; the
\* lock is only granted while nobody holds it
BufferAcquire ==
    /\ smp.pc = "entered"
    /\ \E granted \in BOOLEAN :
          /\ granted => MutexAvailable(buffer_mutex)
          /\ buffer_mutex' = IF granted THEN "sampler" ELSE buffer_mutex
          /\ smp' = [smp EXCEPT
                        !.pc = IF granted THEN "locked" ELSE "returned",
                        !.result = IF granted THEN "none" ELSE "BUFFER_RESULT_ERROR",
                        !.lock_success = granted,
                        !.lock_call_count = @ + 1,
                        !.before_buffer = reading_buffer,
                        !.before_count = reading_idx]
    /\ UNCHANGED <<reading_buffer, reading_idx, tk_ghost, bufferFrame>>

\* the capacity check, then the write of the slot or the full branch
BufferAdd ==
    /\ smp.pc = "locked"
    /\ IF HasSpace(reading_idx, Len(reading_buffer))
       THEN /\ reading_buffer' = WriteSlot(reading_buffer, reading_idx, smp.reading)
            /\ smp' = [smp EXCEPT !.pc = "written"]
            /\ UNCHANGED reading_idx
       ELSE LET b == AddWhenFull(reading_buffer, reading_idx, smp.reading)
            IN /\ reading_buffer' = b.buffer
               /\ reading_idx' = b.count
               /\ smp' = [smp EXCEPT !.pc = "release", !.result = "BUFFER_RESULT_FULL"]
    /\ UNCHANGED <<buffer_mutex, tk_ghost, bufferFrame>>

\* (*(buffer->current_count))++
BufferInc ==
    /\ smp.pc = "written"
    /\ reading_idx' = reading_idx + 1
    /\ smp' = [smp EXCEPT !.pc = "release", !.result = "BUFFER_RESULT_SUCCESS"]
    /\ tk_ghost' = [tk_ghost EXCEPT !.appended = Append(@, smp.reading),
                                    !.since = @ + 1]
    /\ UNCHANGED <<reading_buffer, buffer_mutex, bufferFrame>>

\* interface->release_buffer_lock(); return result
BufferRelease ==
    /\ smp.pc = "release"
    /\ IF ReleaseReached(smp.result)
       THEN /\ buffer_mutex' = "free"
            /\ smp' = [smp EXCEPT !.pc = "returned", !.unlock_call_count = @ + 1]
       ELSE /\ smp' = [smp EXCEPT !.pc = "returned"]
            /\ UNCHANGED buffer_mutex
    /\ UNCHANGED <<reading_buffer, reading_idx, tk_ghost, bufferFrame>>

\* the caller has looked at the result; the next call may begin
BufferReturn ==
    /\ smp.pc = "returned"
    /\ smp' = [IdleCall EXCEPT !.next = smp.next]
    /\ UNCHANGED <<reading_buffer, reading_idx, buffer_mutex, tk_ghost, bufferFrame>>

\* the other user of the buffer, task_send_data: under the same lock it
\* copies the readings out and sets the count to 0; the slots keep their
\* contents
BufferDrain ==
    /\ MutexAvailable(buffer_mutex)
    /\ reading_idx > 0
    /\ reading_idx' = DrainReset(reading_idx)
    /\ tk_ghost' = [tk_ghost EXCEPT
                       !.drained = @ \o FirstK(reading_buffer, reading_idx),
                       !.since = 0]
    /\ UNCHANGED <<reading_buffer, buffer_mutex, smp, bufferFrame>>

NextBuffer ==
    \/ BufferCall
    \/ BufferAcquire
    \/ BufferAdd
    \/ BufferInc
    \/ BufferRelease
    \/ BufferReturn
    \/ BufferDrain

SpecBuffer == InitBuffer /\ [][NextBuffer]_vars

\* C22: a call of add_sensor_reading that got the lock and found count <
\* capacity, looked at when its work on the buffer is done and it still
\* holds the lock (pc "release"), has stored its reading at index count,
\* added exactly 1 to count, left every other slot as it was and has
\* BUFFER_RESULT_SUCCESS as its result, and only such a call has that
\* result; so the first count slots always hold the readings added since
\* the count was last 0, in call order.
C22_AddStoresAtCount ==
    /\ smp.pc = "release" /\ smp.before_count < Len(reading_buffer) =>
          /\ smp.result = "BUFFER_RESULT_SUCCESS"
          /\ reading_idx = smp.before_count + 1
          /\ reading_buffer[smp.before_count + 1] = smp.reading
          /\ \A i \in 1..Len(reading_buffer) :
                i # smp.before_count + 1 => reading_buffer[i] = smp.before_buffer[i]
    /\ smp.result = "BUFFER_RESULT_SUCCESS" =>
          smp.lock_success /\ smp.before_count < Len(reading_buffer)
    /\ tk_ghost.since = reading_idx
    /\ FirstK(reading_buffer, reading_idx) = LastK(tk_ghost.appended, reading_idx)

\* capacity adds in a row from the empty buffer: the last one has filled the
\* last slot, and the slots hold the readings in call order
C22_Witness ==
    /\ smp.pc = "release"
    /\ smp.result = "BUFFER_RESULT_SUCCESS"
    /\ Len(reading_buffer) = MaxBufferCap
    /\ reading_idx = MaxBufferCap
    /\ tk_ghost.drained = <<>>
    /\ reading_buffer = [i \in 1..MaxBufferCap |-> [id |-> i, ts |-> 0]]

\* C23: a call of add_sensor_reading that got the lock and found the buffer
\* full has BUFFER_RESULT_FULL as its result and leaves the count and every
\* slot as they were, and only such a call has that result.
C23_FullLeavesBuffer ==
    /\ smp.pc = "release" /\ smp.before_count >= Len(reading_buffer) =>
          /\ smp.result = "BUFFER_RESULT_FULL"
          /\ reading_idx = smp.before_count
          /\ reading_buffer = smp.before_buffer
    /\ smp.result = "BUFFER_RESULT_FULL" =>
          smp.lock_success /\ smp.before_count >= Len(reading_buffer)

\* the call after the one that filled a buffer of two slots
C23_Witness ==
    /\ smp.pc = "release"
    /\ smp.result = "BUFFER_RESULT_FULL"
    /\ Len(reading_buffer) = 2
    /\ reading_idx = 2
    /\ smp.reading.id = 3
    /\ smp.reading \notin Range(reading_buffer)

\* C24: one call of add_sensor_reading calls acquire_buffer_lock at most
\* once; when the lock is refused the call returns BUFFER_RESULT_ERROR with
\* the buffer and the count untouched and release_buffer_lock not called;
\* when it is granted the lock is held until the body is done, and
\* release_buffer_lock has been called exactly once when the call returns
\* SUCCESS or FULL.
C24_LockDiscipline ==
    /\ [](/\ smp.lock_call_count <= 1
          /\ smp.unlock_call_count <= smp.lock_call_count
          /\ smp.pc \in {"locked", "written", "release"} =>
                /\ smp.lock_success
                /\ smp.lock_call_count = 1
                /\ smp.unlock_call_count = 0
                /\ buffer_mutex = "sampler"
          /\ smp.pc = "returned" /\ ~smp.lock_success =>
                /\ smp.result = "BUFFER_RESULT_ERROR"
                /\ smp.unlock_call_count = 0
          /\ smp.pc = "returned" /\ smp.lock_success =>
                /\ smp.result \in {"BUFFER_RESULT_SUCCESS", "BUFFER_RESULT_FULL"}
                /\ smp.lock_call_count = 1
                /\ smp.unlock_call_count = 1
          /\ smp.pc \in {"wait", "entered", "returned"} => buffer_mutex = "free")
    /\ [][smp.pc = "entered" /\ smp'.pc = "returned" =>
             /\ smp'.result = "BUFFER_RESULT_ERROR"
             /\ reading_buffer' = reading_buffer
             /\ reading_idx' = reading_idx
             /\ buffer_mutex' = buffer_mutex]_vars

\* a refused lock on a buffer that holds a reading
C24_Witness ==
    /\ smp.pc = "returned"
    /\ smp.lock_call_count = 1
    /\ ~smp.lock_success
    /\ smp.result = "BUFFER_RESULT_ERROR"
    /\ smp.unlock_call_count = 0
    /\ reading_idx = 1

(***************************************************************************)
(* persistent_storage.c called by two tasks at once: app_main, which asks  *)
(* for the count while it starts the tasks, and the sender task.  st_op    *)
(* holds for each caller the operation it is in: name, pc ("take": before  *)
(* xSemaphoreTake; "in": between take and give, i the NVS call it makes    *)
(* next; "give": before xSemaphoreGive; "returned"), the batch_count it    *)
(* read and the error it returns.  st_ghost.n counts the calls.            *)
(***************************************************************************)
Callers == {"main", "sender"}

MutexOps == {"save", "load", "clear", "get_count"}

IdleCaller == [name |-> "none", pc |-> "idle", i |-> 0, batch_count |-> 0,
               err |-> "none"]

\* persistent_storage_init has returned, with or without success
InitMutex ==
    /\ nvs = EmptyNvs
    /\ s_initialized \in BOOLEAN
    /\ s_nvs_mutex = "free"
    /\ st_pc = "idle"
    /\ st_op = [c \in Callers |-> IdleCaller]
    /\ st_ret = NoRet
    /\ st_ghost = NoGhost
    /\ InitTaskVars
    /\ current_readings = init_reading_buffer(1)
    /\ unsent_buffer = init_reading_buffer(1)
    /\ mock_connected = FALSE
    /\ last_ntp_sync = 0
    /\ cycle_result = "none"
    /\ cycle_calls = <<>>
    /\ InitAddGhost
    /\ next_id = 1

\* the NVS calls of each operation between its take and its give, in order;
\* the loops over the batches are one call each
OpSteps(name) ==
    IF name = "save" THEN <<"save_get", "save_blob", "save_cnt", "save_commit">>
    ELSE IF name = "load" THEN <<"load_get", "load_loop">>
    ELSE IF name = "clear" THEN <<"clear_get", "clear_erase", "clear_cnt", "clear_commit">>
    ELSE <<"count_get", "count_loop">>

\* an error path that returns with the mutex still taken
ErrorExitNoGive(step) == "returned"

\* every error path between take and give: xSemaphoreGive(s_nvs_mutex);
\* return err
ErrorExit(step) == "give"

\* the mutex handed out whoever holds it
NvsMutexIgnored(m) == TRUE

\* xSemaphoreTake(s_nvs_mutex, portMAX_DELAY) returns once the mutex is free
NvsMutexFree(m) == m = "free"

\* one NVS call of an operation: the partition after it, the batch_count the
\* operation goes on with, and how it goes on: "next", or the pc it leaves
\* the body with and the error it will return
StepResult(step, fail, st, batch_count, readings) ==
    LET go(st1, n) == [nvs |-> st1, batch_count |-> n, to |-> "next", err |-> "none"]
        out(pc, err) == [nvs |-> st, batch_count |-> batch_count, to |-> pc, err |-> err]
    IN IF step \in {"save_get", "load_get", "count_get"}
       THEN IF fail /\ st.has_count THEN out(ErrorExit(step), "ESP_FAIL")
            ELSE IF step # "save_get" /\ CountRead(st) = 0 THEN out("give", "ESP_OK")
            ELSE go(st, CountRead(st))
       ELSE IF step = "save_blob"
       THEN IF fail THEN out(ErrorExit(step), "ESP_FAIL")
            ELSE go(ApplyOps(st, SaveBlobOps(batch_count, readings)), batch_count)
       ELSE IF step = "save_cnt"
       THEN IF fail THEN out(ErrorExit(step), "ESP_FAIL")
            ELSE go(ApplyOps(st, SaveCountOps(batch_count)), batch_count)
       ELSE IF step = "clear_get"
       THEN go(st, IF fail THEN 0 ELSE CountRead(st))
       ELSE IF step = "clear_erase"
       THEN go(IF fail THEN st ELSE ClearEraseAll(st, 0, batch_count), batch_count)
       ELSE IF step = "clear_cnt"
       THEN go(IF fail THEN st ELSE ApplyOps(st, ClearCountOps), batch_count)
       ELSE IF step \in {"save_commit", "clear_commit"}
       THEN out("give", IF fail THEN "ESP_FAIL" ELSE "ESP_OK")
       ELSE out("give", "ESP_OK")

mutexFrame == <<coreVars, taskVars, s_initialized, st_pc, st_ret>>

\* a task calls an operation: the checks before the mutex
MutexCall ==
    /\ st_ghost.n < MaxMutexCalls
    /\ \E c \in Callers, op \in MutexOps, arg_ok \in BOOLEAN :
          /\ st_op[c].pc = "idle"
          /\ op = "save" => CountRead(nvs) < MaxMutexBatches
          /\ op = "clear" => arg_ok
          /\ st_op' = [st_op EXCEPT ![c] =
                IF ~s_initialized
                THEN [IdleCaller EXCEPT !.name = op, !.pc = "returned",
                                        !.err = "ESP_ERR_INVALID_STATE"]
                ELSE IF ~arg_ok
                THEN [IdleCaller EXCEPT !.name = op, !.pc = "returned",
                                        !.err = "ESP_ERR_INVALID_ARG"]
                ELSE [IdleCaller EXCEPT !.name = op, !.pc = "take"]]
    /\ st_ghost' = [st_ghost EXCEPT !.n = @ + 1]
    /\ UNCHANGED <<nvs, s_nvs_mutex, mutexFrame>>

\* xSemaphoreTake(s_nvs_mutex, portMAX_DELAY)
MutexTake ==
    /\ \E c \in Callers :
          /\ st_op[c].pc = "take"
          /\ NvsMutexFree(s_nvs_mutex)
          /\ st_op' = [st_op EXCEPT ![c].pc = "in", ![c].i = 1]
    /\ s_nvs_mutex' = "held"
    /\ UNCHANGED <<nvs, st_ghost, mutexFrame>>

\* the next NVS call of the operation, which may fail
MutexStep ==
    /\ \E c \in Callers, fail \in BOOLEAN :
          /\ st_op[c].pc = "in"
          /\ LET o == st_op[c]
                 r == StepResult(OpSteps(o.name)[o.i], fail, nvs, o.batch_count,
                                 <<[id |-> st_ghost.n, ts |-> 0]>>)
             IN /\ nvs' = r.nvs
                /\ st_op' = [st_op EXCEPT ![c] =
                      IF r.to = "next"
                      THEN [o EXCEPT !.i = @ + 1, !.batch_count = r.batch_count]
                      ELSE [o EXCEPT !.pc = r.to, !.err = r.err]]
    /\ UNCHANGED <<s_nvs_mutex, st_ghost, mutexFrame>>

\* xSemaphoreGive(s_nvs_mutex); return
MutexGive ==
    /\ \E c \in Callers :
          /\ st_op[c].pc = "give"
          /\ st_op' = [st_op EXCEPT ![c].pc = "returned"]
    /\ s_nvs_mutex' = "free"
    /\ UNCHANGED <<nvs, st_ghost, mutexFrame>>

\* the caller goes on and may call again
MutexReturn ==
    /\ \E c \in Callers :
          /\ st_op[c].pc = "returned"
          /\ st_op' = [st_op EXCEPT ![c] = IdleCaller]
    /\ UNCHANGED <<nvs, s_nvs_mutex, st_ghost, mutexFrame>>

NextMutex ==
    \/ MutexCall
    \/ MutexTake
    \/ MutexStep
    \/ MutexGive
    \/ MutexReturn

SpecMutex == InitMutex /\ [][NextMutex]_vars

\* the caller is between its take and its give
InCritical(c) == st_op[c].pc \in {"in", "give"}

\* C28: at most one caller of save, load, clear and get_count is between its
\* take and its give of s_nvs_mutex, and the mutex is held exactly while some
\* caller is there: whatever NVS call failed, a call that has returned has
\* given the mutex back, so a caller waiting for the mutex waits for a call
\* that is still running.
C28_StorageMutex ==
    /\ Cardinality({c \in Callers : InCritical(c)}) <= 1
    /\ s_nvs_mutex = "held" <=> \E c \in Callers : InCritical(c)
    /\ \A c \in Callers :
          st_op[c].pc \in {"idle", "take", "returned"} /\ s_nvs_mutex = "held"
             => \E d \in Callers \ {c} : InCritical(d)

\* the sender's save has returned the error of a failed counter write while
\* app_main waits for the mutex, which is free again
C28_Witness ==
    /\ st_op["sender"].name = "save"
    /\ st_op["sender"].pc = "returned"
    /\ st_op["sender"].err = "ESP_FAIL"
    /\ BlobKeys(nvs) = {0}
    /\ ~nvs.has_count
    /\ st_op["main"].pc = "take"
    /\ s_nvs_mutex = "free"


(***************************************************************************)
(* The loop of task_send_data against the clock.  sys_time is what time()  *)
(* returns.  snd is [pc, last_send_time]; the local now is only compared   *)
(* with last_send_time where it is read and is not kept.  Each stretch of  *)
(* the task between two looks at pc is one step; the drain under           *)
(* buffer_mutex is inside the step that does it.  tk_ghost is bookkeeping: *)
(* uptime, the seconds the chip has been running; body_end, the uptime at  *)
(* which the cycle body last ended (-1: not since the start of the task);  *)
(* attempt, what the connection attempt that is running or has just ended  *)
(* did: whether it is over, whether Wi-Fi connected, whether the malloc of *)
(* temp_buffer failed, and for each call of send_sensor_data_with_retry    *)
(* whether it succeeded; the next step of the loop forgets it.             *)
(***************************************************************************)
NoAttempt == [done |-> FALSE, connected |-> FALSE, alloc_failed |-> FALSE, sends |-> <<>>]

\* a batch left in the store by an earlier run of the firmware
EarlierBatch == <<[id |-> 0, ts |-> NowValid - FutureSlack]>>

\* the start of task_send_data after a power-on: the RTC at 0, the store
\* empty or holding a batch of an earlier run
InitLoop ==
    /\ nvs \in {EmptyNvs, SaveAll(EmptyNvs, TRUE, EarlierBatch, "none").nvs}
    /\ s_initialized = FALSE
    /\ s_nvs_mutex = "free"
    /\ st_pc = "idle"
    /\ st_op = NoOp
    /\ st_ret = NoRet
    /\ st_ghost = NoGhost
    /\ current_readings = init_reading_buffer(1)
    /\ unsent_buffer = init_reading_buffer(1)
    /\ mock_connected = FALSE
    /\ last_ntp_sync = 0
    /\ cycle_result = "none"
    /\ cycle_calls = <<>>
    /\ InitAddGhost
    /\ next_id = 1
    /\ reading_buffer = [i \in 1..BufferSize |-> ZeroReading]
    /\ reading_idx = 0
    /\ buffer_mutex = "free"
    /\ wifi_send_failed = FALSE
    /\ sys_time = 0
    /\ smp = InitSampler
    /\ snd = [pc |-> "boot", last_send_time |-> 0]
    /\ env_good = FALSE
    /\ tk_ghost = [uptime |-> 0, body_end |-> -1, attempt |-> NoAttempt]

\* what the steps of the loop leave alone
loopFrame == <<coreVars, s_nvs_mutex, st_pc, st_op, st_ret, st_ghost,
               buffer_mutex, env_good>>

\* the time an NTP server gives after uptime seconds of running
TrueTime(uptime) == NowValid + uptime

\* sync_time_if_needed: only a clock that is not valid (is_system_time_valid)
\* is set, and only if initialize_sntp succeeds
ClockAfterSync(now, uptime, ntp_ok) ==
    IF now < ValidTimeFloor /\ ntp_ok THEN TrueTime(uptime) ELSE now

\* one call of send_sensor_data_with_retry as the attempt remembers it
SendOutcome(readings, now, in) ==
    IF readings = <<>>
    THEN <<>>
    ELSE <<IF send_sensor_data_with_retry(readings, now, in.alloc_ok, in.answers).success
           THEN "ok" ELSE "failed">>

\* the turn of the loop cut short by the failed malloc with last_send_time
\* left as it was
LastSendKept(last_send_time, now) == last_send_time

\* the failed malloc of temp_buffer: last_send_time = time(NULL); continue
LastSendAfterAllocFailure(last_send_time, now) == now

\* task_send_data up to the loop: persistent_storage_init, the initial
\* connection, the time sync, send_stored_readings, the flag, and
\* time(&last_send_time)
TurnBoot ==
    /\ snd.pc = "boot"
    /\ \E init_ok \in BOOLEAN, connected \in BOOLEAN, ntp_ok \in BOOLEAN,
          in \in StoredSendInputs :
          LET t == ClockAfterSync(sys_time, tk_ghost.uptime, ntp_ok)
              r == send_stored_readings(nvs, init_ok, t, in)
          IN /\ s_initialized' = init_ok
             /\ IF connected
                THEN /\ sys_time' = t
                     /\ nvs' = r.nvs
                     /\ wifi_send_failed' = FALSE
                     /\ tk_ghost' = [tk_ghost EXCEPT !.attempt =
                            [done |-> TRUE, connected |-> TRUE, alloc_failed |-> FALSE,
                             sends |-> SendOutcome(r.handed, t, in)]]
                ELSE /\ ~ntp_ok /\ in = StoredSendGood
                     /\ wifi_send_failed' = TRUE
                     /\ tk_ghost' = [tk_ghost EXCEPT !.attempt =
                            [NoAttempt EXCEPT !.done = TRUE]]
                     /\ UNCHANGED <<sys_time, nvs>>
             /\ snd' = [pc |-> "check", last_send_time |-> sys_time']
    /\ UNCHANGED <<reading_buffer, reading_idx, smp, loopFrame>>

\* the sampler task while the sender sleeps in vTaskDelay: one
\* add_sensor_reading with the clock's time
TurnSample ==
    /\ snd.pc = "delay"
    /\ smp.next <= MaxLoopId
    /\ LET reading == [id |-> smp.next, ts |-> sys_time]
       IN IF HasSpace(reading_idx, BufferSize)
          THEN /\ reading_buffer' = WriteSlot(reading_buffer, reading_idx, reading)
               /\ reading_idx' = reading_idx + 1
          ELSE LET b == AddWhenFull(reading_buffer, reading_idx, reading)
               IN /\ reading_buffer' = b.buffer
                  /\ reading_idx' = b.count
    /\ smp' = [smp EXCEPT !.next = @ + 1]
    /\ UNCHANGED <<wifi_send_failed, sys_time, snd, tk_ghost, nvs, s_initialized,
                   loopFrame>>

\* time(&now); if ((now - last_send_time) >= DATA_SEND_INTERVAL_S)
TurnCheck ==
    /\ snd.pc = "check"
    /\ snd' = [snd EXCEPT !.pc =
                  IF sys_time - snd.last_send_time >= DATA_SEND_INTERVAL_S
                  THEN "body" ELSE "delay"]
    /\ tk_ghost' = [tk_ghost EXCEPT !.attempt = NoAttempt]
    /\ UNCHANGED <<reading_buffer, reading_idx, smp, wifi_send_failed, sys_time,
                   nvs, s_initialized, loopFrame>>

\* vTaskDelay(TASK_LOOP_CHECK_INTERVAL_S * 1000 ms)
TurnDelay ==
    /\ snd.pc = "delay"
    /\ tk_ghost.uptime < MaxLoopTurns * TASK_LOOP_CHECK_INTERVAL_S
    /\ sys_time' = sys_time + TASK_LOOP_CHECK_INTERVAL_S
    /\ tk_ghost' = [tk_ghost EXCEPT !.uptime = @ + TASK_LOOP_CHECK_INTERVAL_S,
                                    !.attempt = NoAttempt]
    /\ snd' = [snd EXCEPT !.pc = "check"]
    /\ UNCHANGED <<reading_buffer, reading_idx, smp, wifi_send_failed,
                   nvs, s_initialized, loopFrame>>

\* night, the chip stays awake: last_send_time = time(NULL); continue
TurnNight ==
    /\ snd.pc = "body"
    /\ snd' = [pc |-> "check", last_send_time |-> sys_time]
    /\ tk_ghost' = [tk_ghost EXCEPT !.body_end = tk_ghost.uptime]
    /\ UNCHANGED <<reading_buffer, reading_idx, smp, wifi_send_failed, sys_time,
                   nvs, s_initialized, loopFrame>>

\* night, enter_night_sleep: the chip sleeps and starts over; RAM is lost,
\* the NVS partition and the RTC clock are kept
TurnSleep ==
    /\ snd.pc = "body"
    /\ reading_buffer' = [i \in 1..BufferSize |-> ZeroReading]
    /\ reading_idx' = 0
    /\ wifi_send_failed' = FALSE
    /\ s_initialized' = FALSE
    /\ snd' = [pc |-> "boot", last_send_time |-> 0]
    /\ tk_ghost' = [tk_ghost EXCEPT !.body_end = -1, !.attempt = NoAttempt]
    /\ UNCHANGED <<smp, sys_time, nvs, loopFrame>>

\* wifi_manager_init and the wait for the connection.  Connected: the time
\* sync.  Not connected: the flag, the drain into a block from malloc, the
\* save of the drained readings, last_send_time = time(NULL)
TurnConnect ==
    /\ snd.pc = "body"
    /\ \E connected \in BOOLEAN, wait \in {0, ConnectWait}, ok \in BOOLEAN,
          fail_at \in SaveFailKinds :
          LET up == tk_ghost.uptime + wait
              t == sys_time + wait
              temp == IF ok THEN FirstK(reading_buffer, reading_idx) ELSE <<>>
          IN IF connected
             THEN /\ fail_at = "none"
                  /\ sys_time' = ClockAfterSync(t, up, ok)
                  /\ snd' = [snd EXCEPT !.pc = "conn"]
                  /\ tk_ghost' = [tk_ghost EXCEPT !.uptime = up, !.attempt =
                         [NoAttempt EXCEPT !.connected = TRUE]]
                  /\ UNCHANGED <<wifi_send_failed, reading_idx, nvs>>
             ELSE /\ temp = <<>> => fail_at = "none"
                  /\ wifi_send_failed' = TRUE
                  /\ sys_time' = t
                  /\ reading_idx' = IF temp # <<>> THEN DrainReset(reading_idx)
                                    ELSE reading_idx
                  /\ nvs' = IF temp # <<>>
                            THEN SaveAll(nvs, s_initialized, temp, fail_at).nvs
                            ELSE nvs
                  /\ snd' = [pc |-> "delay", last_send_time |-> t]
                  /\ tk_ghost' = [uptime |-> up, body_end |-> up,
                                  attempt |-> [NoAttempt EXCEPT !.done = TRUE]]
    /\ UNCHANGED <<reading_buffer, smp, s_initialized, loopFrame>>

\* connected: if (context->wifi_send_failed) send_stored_readings()
TurnStored ==
    /\ snd.pc = "conn"
    /\ \E in \in StoredSendInputs :
          LET r == send_stored_readings(nvs, s_initialized, sys_time, in)
          IN IF wifi_send_failed
             THEN /\ nvs' = r.nvs
                  /\ tk_ghost' = [tk_ghost EXCEPT !.attempt.sends =
                                     @ \o SendOutcome(r.handed, sys_time, in)]
             ELSE /\ in = StoredSendGood
                  /\ UNCHANGED <<nvs, tk_ghost>>
    /\ snd' = [snd EXCEPT !.pc = "live"]
    /\ UNCHANGED <<reading_buffer, reading_idx, smp, wifi_send_failed, sys_time,
                   s_initialized, loopFrame>>

\* connected: the malloc of temp_buffer; when it fails the flag is set and
\* the turn ends; else the drain, send_sensor_data_with_retry on what was
\* drained, wifi_send_failed = !send_success, the disconnect and
\* last_send_time = time(NULL)
TurnLive ==
    /\ snd.pc = "live"
    /\ \E malloc_ok \in BOOLEAN, in \in LiveSendInputs :
          LET temp == FirstK(reading_buffer, reading_idx)
              send_success ==
                  IF temp # <<>>
                  THEN send_sensor_data_with_retry(temp, sys_time, in.alloc_ok,
                                                   in.answers).success
                  ELSE TRUE
          IN IF malloc_ok
             THEN /\ temp = <<>> => in = LiveSendGood
                  /\ reading_idx' = IF temp # <<>> THEN DrainReset(reading_idx)
                                    ELSE reading_idx
                  /\ wifi_send_failed' = ~send_success
                  /\ snd' = [pc |-> "delay", last_send_time |-> sys_time]
                  /\ tk_ghost' = [tk_ghost EXCEPT
                         !.body_end = tk_ghost.uptime,
                         !.attempt.done = TRUE,
                         !.attempt.sends = @ \o SendOutcome(temp, sys_time, in)]
             ELSE /\ in = LiveSendGood
                  /\ wifi_send_failed' = TRUE
                  /\ snd' = [pc |-> "check", last_send_time |->
                                LastSendAfterAllocFailure(snd.last_send_time, sys_time)]
                  /\ tk_ghost' = [tk_ghost EXCEPT
                         !.body_end = tk_ghost.uptime,
                         !.attempt.done = TRUE,
                         !.attempt.alloc_failed = TRUE]
                  /\ UNCHANGED reading_idx
    /\ UNCHANGED <<reading_buffer, smp, sys_time, nvs, s_initialized, loopFrame>>

NextLoop ==
    \/ TurnBoot
    \/ TurnSample
    \/ TurnCheck
    \/ TurnDelay
    \/ TurnNight
    \/ TurnSleep
    \/ TurnConnect
    \/ TurnStored
    \/ TurnLive

SpecLoop == InitLoop /\ [][NextLoop]_vars

\* C25: every step that ends the cycle body of task_send_data (night-time
\* skip, failed connect, failed malloc of temp_buffer, live send succeeded or
\* failed) leaves last_send_time at the time of the clock, and every cycle
\* body that begins after another one has ended begins at least
\* DATA_SEND_INTERVAL_S seconds of running time after that end.
C25_IntervalAfterEveryCycle ==
    /\ [][snd.pc \in {"body", "conn", "live"} /\ snd'.pc \in {"check", "delay"}
             => snd'.last_send_time = sys_time']_vars
    /\ [][snd.pc = "check" /\ snd'.pc = "body" /\ tk_ghost.body_end >= 0
             => tk_ghost.uptime - tk_ghost.body_end >= DATA_SEND_INTERVAL_S]_vars

\* the second cycle body begins exactly DATA_SEND_INTERVAL_S after the end of
\* the first one, which failed: the flag is set, nothing was saved and a
\* reading waits in the buffer
C25_Witness ==
    /\ snd.pc = "body"
    /\ wifi_send_failed
    /\ StoredReadings(nvs) = <<>>
    /\ reading_idx = 1
    /\ tk_ghost.body_end = DATA_SEND_INTERVAL_S
    /\ tk_ghost.uptime - tk_ghost.body_end = DATA_SEND_INTERVAL_S

\* C26: after the boot-time attempt and after every attempt of the loop,
\* wifi_send_failed is true if the connect failed or a call of
\* send_sensor_data_with_retry made in the attempt failed, and false if
\* Wi-Fi connected and every such call succeeded.  An attempt cut short by
\* the failed malloc of temp_buffer is left aside in the second half.
C26_FlagRecordsAttempt ==
    LET a == tk_ghost.attempt
        some_failed == \E i \in 1..Len(a.sends) : a.sends[i] = "failed"
    IN a.done =>
          /\ (~a.connected \/ some_failed) => wifi_send_failed
          /\ (a.connected /\ ~some_failed /\ ~a.alloc_failed) => ~wifi_send_failed

\* every reading of a batch that is not empty fails the timestamp check of
\* create_corrected_readings and create_filtered_readings
AllRejected(readings, now) ==
    /\ readings # <<>>
    /\ \A i \in 1..Len(readings) :
          readings[i].ts < ValidTimeFloor \/ readings[i].ts > now + FutureSlack

\* C31: a batch whose readings are all rejected by the timestamp filter
\* counts as sent.  For the batch the store would load and for the readings
\* in the buffer, whenever all of them are rejected, send_sensor_data_with_retry
\* and send_readings_processor return success without a transmit call,
\* whatever the transmitter would have answered.  A send_stored_readings call
\* of the task (at boot or in the loop) that hands such a batch to the send
\* function records a successful send and runs
\* persistent_storage_clear_readings on the store; a live send of such
\* readings leaves the flag false, the buffer drained and the store as it
\* was, so the readings are kept nowhere.
C31_AllRejectedCountsAsSent ==
    /\ [](\A b \in {persistent_storage_load_readings(nvs, MaxLoadCount, NoFails).readings,
                     FirstK(reading_buffer, reading_idx)} :
            AllRejected(b, sys_time) =>
               \A in \in LiveSendInputs :
                  /\ send_sensor_data_with_retry(b, sys_time, in.alloc_ok, in.answers)
                         = [success |-> TRUE, attempts |-> 0, payload |-> <<>>]
                  /\ send_readings_processor(b, sys_time, in.alloc_ok, in.answers)
                         = [success |-> TRUE, attempts |-> 0, payload |-> <<>>])
    /\ [][(/\ snd.pc \in {"boot", "conn"}
           /\ tk_ghost'.attempt.sends #
                 (IF snd.pc = "boot" THEN <<>> ELSE tk_ghost.attempt.sends)
           /\ AllRejected(persistent_storage_load_readings(nvs, MaxLoadCount,
                                                           NoFails).readings, sys_time'))
             => /\ tk_ghost'.attempt.sends =
                      (IF snd.pc = "boot" THEN <<>> ELSE tk_ghost.attempt.sends) \o <<"ok">>
                /\ nvs' \in {ClearAll(nvs, TRUE, k).nvs : k \in ClearFailKinds}]_vars
    /\ [][(/\ snd.pc = "live"
           /\ snd'.pc = "delay"
           /\ AllRejected(FirstK(reading_buffer, reading_idx), sys_time))
             => /\ ~wifi_send_failed'
                /\ reading_idx' = 0
                /\ nvs' = nvs
                /\ tk_ghost'.attempt.sends = tk_ghost.attempt.sends \o <<"ok">>]_vars

\* in the loop, with a clock that was never set, send_stored_readings has
\* just reported the stored batch as sent and the store is empty: under such
\* a clock the filter rejects every reading, those stamped before 2024 and
\* those stamped by an earlier run with a valid clock
C31_Witness ==
    /\ snd.pc = "live"
    /\ wifi_send_failed
    /\ sys_time < ValidTimeFloor
    /\ tk_ghost.attempt.sends = <<"ok">>
    /\ StoredReadings(nvs) = <<>>

(***************************************************************************)
(* SpecChunk: send_readings_processor with api_send_sensor_data, and       *)
(* send_sensor_data_with_retry with send_sensor_data_with_status, from the *)
(* retry loop on, one step per chunk.  The batch is what the filter left:  *)
(* count readings, numbered 1..count by their place in the array.  snd is  *)
(* [pc, fn, count, attempt, sent_count, final_result, requests, earlier,   *)
(* success]; requests lists, for the attempt that is running, every call   *)
(* of the chunk function: from and size of the chunk handed over, carried, *)
(* the number of readings in the HTTP request (0: none was made), and the  *)
(* result; earlier is bookkeeping: the readings carried by the requests    *)
(* that were acknowledged in the attempts before.                          *)
(***************************************************************************)
\* the functions that hold the retry loop
ChunkSenders == {"send_readings_processor", "send_sensor_data_with_retry"}

\* what may happen inside one call of the chunk function: cJSON_CreateArray,
\* the number of sensor objects added before a cJSON call fails (size: none
\* fails), cJSON_Print, and the answer to the HTTP POST
ChunkInputs(size) ==
    {in \in [array_ok : BOOLEAN, built : 0..size, print_ok : BOOLEAN, http : SendResults] :
        /\ ~in.array_ok => in.built = size /\ in.print_ok /\ in.http = "ESP_OK"
        /\ in.built = 0 => in.print_ok /\ in.http = "ESP_OK"
        /\ ~in.print_ok => in.http = "ESP_OK"}

\* send_sensor_data_chunk / _send_sensor_data_chunk on a chunk of size
\* readings: the result and the number of readings in the request
send_sensor_data_chunk(size, in) ==
    IF ~in.array_ok
    THEN [result |-> "ESP_ERR_NO_MEM", carried |-> 0]
    ELSE IF in.built = 0
    THEN [result |-> "ESP_ERR_INVALID_ARG", carried |-> 0]
    ELSE IF ~in.print_ok
    THEN [result |-> "ESP_ERR_NO_MEM", carried |-> 0]
    ELSE [result |-> in.http, carried |-> in.built]

\* the sender outside the send function
IdleChunk ==
    [pc |-> "idle", fn |-> "none", count |-> 0, attempt |-> 0, sent_count |-> 0,
     final_result |-> "ESP_OK", requests |-> <<>>, earlier |-> {}, success |-> FALSE]

InitChunk ==
    /\ InitStoreVars
    /\ current_readings = init_reading_buffer(1)
    /\ unsent_buffer = init_reading_buffer(1)
    /\ mock_connected = FALSE
    /\ last_ntp_sync = 0
    /\ cycle_result = "none"
    /\ cycle_calls = <<>>
    /\ InitAddGhost
    /\ next_id = 1
    /\ reading_buffer = [i \in 1..BufferSize |-> ZeroReading]
    /\ reading_idx = 0
    /\ buffer_mutex = "free"
    /\ wifi_send_failed = FALSE
    /\ sys_time = NowValid
    /\ smp = InitSampler
    /\ snd = IdleChunk
    /\ env_good = FALSE
    /\ tk_ghost = InitTaskGhost

\* the send function is called and its filter leaves count readings
ProcessorCall ==
    /\ snd.pc = "idle"
    /\ \E fn \in ChunkSenders, count \in 1..MaxChunkCount :
          snd' = [IdleChunk EXCEPT !.pc = "attempt", !.fn = fn, !.count = count,
                                   !.attempt = 1]
    /\ UNCHANGED sendFrame

\* the retry loop calls api_send_sensor_data / send_sensor_data_with_status:
\* sent_count = 0, final_result = ESP_OK
ApiCall ==
    /\ snd.pc = "attempt"
    /\ snd' = [snd EXCEPT !.pc = "chunk", !.sent_count = 0, !.final_result = "ESP_OK",
                          !.requests = <<>>]
    /\ UNCHANGED sendFrame

\* one turn of while (sent_count < count): the chunk size, the chunk
\* function, the break on a failure or sent_count += chunk_size
ApiChunk ==
    /\ snd.pc = "chunk"
    /\ LET chunk_size == IF snd.count - snd.sent_count > MAX_READINGS_PER_CHUNK
                         THEN MAX_READINGS_PER_CHUNK
                         ELSE snd.count - snd.sent_count
       IN \E in \in ChunkInputs(chunk_size) :
             LET r == send_sensor_data_chunk(chunk_size, in)
                 request == [from |-> snd.sent_count, size |-> chunk_size,
                             carried |-> r.carried, result |-> r.result]
             IN IF r.result # "ESP_OK"
                THEN snd' = [snd EXCEPT !.requests = Append(@, request),
                                        !.final_result = r.result,
                                        !.pc = "api_done"]
                ELSE snd' = [snd EXCEPT !.requests = Append(@, request),
                                        !.sent_count = @ + chunk_size,
                                        !.pc = IF snd.sent_count + chunk_size < snd.count
                                               THEN "chunk" ELSE "api_done"]
    /\ UNCHANGED sendFrame

\* the readings carried by the acknowledged requests of a list
Acknowledged(requests) ==
    UNION {(requests[i].from + 1)..(requests[i].from + requests[i].carried) :
              i \in {j \in 1..Len(requests) : requests[j].result = "ESP_OK"}}

\* the retry loop after the call returned final_result: success, the break on
\* an error that is not retried, or the next attempt
ApiReturn ==
    /\ snd.pc = "api_done"
    /\ snd' = IF snd.final_result = "ESP_OK"
              THEN [snd EXCEPT !.pc = "done", !.success = TRUE]
              ELSE IF snd.final_result \in NonRetryable \/ snd.attempt + 1 > MaxAttempts
              THEN [snd EXCEPT !.pc = "done"]
              ELSE [snd EXCEPT !.pc = "attempt", !.attempt = @ + 1,
                               !.earlier = @ \cup Acknowledged(snd.requests)]
    /\ UNCHANGED sendFrame

\* the send function returns snd.success
ProcessorReturn ==
    /\ snd.pc = "done"
    /\ snd' = IdleChunk
    /\ UNCHANGED sendFrame

NextChunk == ProcessorCall \/ ApiCall \/ ApiChunk \/ ApiReturn \/ ProcessorReturn

SpecChunk == InitChunk /\ [][NextChunk]_vars

\* C32: in every call of api_send_sensor_data / send_sensor_data_with_status
\* with count > 0, each HTTP request carries between 1 and
\* MAX_READINGS_PER_CHUNK readings; the requests carry consecutive, disjoint
\* stretches of the array in increasing order, beginning with the first
\* reading; when the call has returned ESP_OK the requests together carried
\* the whole array in ceil(count / MAX_READINGS_PER_CHUNK) requests; and the
\* call ends at the first chunk that fails, returning its error code.
C32_Chunking ==
    LET q == snd.requests
        n == Len(q)
        sent == {i \in 1..n : q[i].carried > 0}
    IN /\ \A i \in sent : q[i].carried \in 1..MAX_READINGS_PER_CHUNK
       /\ \A i \in 1..n :
             q[i].carried > 0 =>
                q[i].from = (IF i = 1 THEN 0 ELSE q[i - 1].from + q[i - 1].carried)
       /\ \A i \in 1..(n - 1) : q[i].result = "ESP_OK"
       /\ (n > 0 /\ q[n].result # "ESP_OK") =>
             snd.pc # "chunk" /\ snd.final_result = q[n].result
       /\ (snd.pc = "api_done" /\ snd.final_result = "ESP_OK") =>
             /\ Acknowledged(q) = 1..snd.count
             /\ n * MAX_READINGS_PER_CHUNK >= snd.count
             /\ (n - 1) * MAX_READINGS_PER_CHUNK < snd.count

\* C38: send_readings_processor returns true for a batch with a valid reading
\* only if, in one attempt, the transport acknowledged every chunk of the
\* filtered batch, in index order, so that every reading of the batch was
\* carried by an acknowledged request of that attempt; every attempt begins
\* again at the first reading, so that what was acknowledged in an earlier
\* attempt is transmitted again by the attempt that succeeds (each reading is
\* delivered at least once, possibly more often).
C38_AtLeastOnce ==
    LET q == snd.requests
        n == Len(q)
    IN snd.fn = "send_readings_processor" =>
          /\ n > 0 => q[1].from = 0
          /\ \A i \in 2..n : q[i].from = q[i - 1].from + q[i - 1].size
          /\ (snd.pc = "done" /\ snd.success) =>
                /\ \A i \in 1..n : q[i].result = "ESP_OK"
                /\ Acknowledged(q) = 1..snd.count
                /\ snd.earlier \subseteq Acknowledged(q)

(***************************************************************************)
(* SpecStatus: status_reporter.c, send_device_status_if_appropriate called *)
(* again and again within one boot.  snd is [pc, initial_no_battery_sent,  *)
(* present, battery_result, attempt] and bookkeeping: calls, the calls     *)
(* begun; absent_before, whether an earlier call found no battery;         *)
(* submitted, how often "no battery detected" was handed to                *)
(* send_status_update_with_retry; submitted_now, whether this call did;    *)
(* posted, whether this call made the HTTP request of the battery status.  *)
(***************************************************************************)
\* what http_send_json_payload may return: ESP_OK for a 2xx answer, the
\* codes the HTTP status is mapped to, ESP_FAIL otherwise
HttpResults == SendResults \cup {"ESP_ERR_NOT_FOUND"}

\* the reporter between two calls, nothing reported yet
IdleStatus ==
    [pc |-> "idle", initial_no_battery_sent |-> FALSE, present |-> FALSE,
     battery_result |-> "none", attempt |-> 0, calls |-> 0, absent_before |-> FALSE,
     submitted |-> 0, submitted_now |-> FALSE, posted |-> FALSE]

InitStatus ==
    /\ InitStoreVars
    /\ current_readings = init_reading_buffer(1)
    /\ unsent_buffer = init_reading_buffer(1)
    /\ mock_connected = FALSE
    /\ last_ntp_sync = 0
    /\ cycle_result = "none"
    /\ cycle_calls = <<>>
    /\ InitAddGhost
    /\ next_id = 1
    /\ reading_buffer = [i \in 1..BufferSize |-> ZeroReading]
    /\ reading_idx = 0
    /\ buffer_mutex = "free"
    /\ wifi_send_failed = FALSE
    /\ sys_time = NowValid
    /\ smp = InitSampler
    /\ snd = IdleStatus
    /\ env_good = FALSE
    /\ tk_ghost = InitTaskGhost

\* api_send_battery_status: adc_battery_get_api_data answers
\* ESP_ERR_NOT_FOUND without a battery; with one, the voltage read or the
\* JSON may fail before the request (how = "adc", "json"), else the result
\* is that of http_send_json_payload
api_send_battery_status(present, how, http) ==
    IF ~present
    THEN [result |-> "ESP_ERR_NOT_FOUND", posted |-> FALSE]
    ELSE IF how = "adc"
    THEN [result |-> "ESP_FAIL", posted |-> FALSE]
    ELSE IF how = "json"
    THEN [result |-> "ESP_ERR_NO_MEM", posted |-> FALSE]
    ELSE [result |-> http, posted |-> TRUE]

\* send_device_status_if_appropriate is called; the battery is there or not
StatusCall ==
    /\ snd.pc = "idle"
    /\ snd.calls < MaxStatusCalls
    /\ \E present \in BOOLEAN :
          snd' = [snd EXCEPT !.pc = "battery", !.present = present,
                             !.calls = @ + 1, !.battery_result = "none",
                             !.attempt = 0, !.submitted_now = FALSE, !.posted = FALSE]
    /\ UNCHANGED sendFrame

\* esp_err_t battery_result = api_send_battery_status() and the branch on it
StatusBattery ==
    /\ snd.pc = "battery"
    /\ \E how \in {"none", "adc", "json"}, http \in HttpResults :
          LET r == api_send_battery_status(snd.present, how, http)
          IN /\ (~snd.present \/ how # "none") => http = "ESP_OK"
             /\ ~snd.present => how = "none"
             /\ snd' = IF r.result = "ESP_ERR_NOT_FOUND" /\ ~snd.initial_no_battery_sent
                       THEN [snd EXCEPT !.pc = "retry", !.battery_result = r.result,
                                        !.posted = r.posted, !.attempt = 1,
                                        !.submitted = @ + 1, !.submitted_now = TRUE]
                       ELSE [snd EXCEPT !.pc = "return", !.battery_result = r.result,
                                        !.posted = r.posted]
    /\ UNCHANGED sendFrame

\* send_status_update_with_retry("no battery detected"): one turn of its
\* loop; when the loop ends, initial_no_battery_sent = true
StatusRetry ==
    /\ snd.pc = "retry"
    /\ \E result \in SendResults :
          snd' = IF result = "ESP_OK" \/ result \in NonRetryable
                    \/ snd.attempt + 1 > MaxAttempts
                 THEN [snd EXCEPT !.pc = "return", !.initial_no_battery_sent = TRUE]
                 ELSE [snd EXCEPT !.attempt = @ + 1]
    /\ UNCHANGED sendFrame

\* send_device_status_if_appropriate returns
StatusReturn ==
    /\ snd.pc = "return"
    /\ snd' = [snd EXCEPT !.pc = "idle",
                          !.absent_before = @ \/ ~snd.present]
    /\ UNCHANGED sendFrame

NextStatus == StatusCall \/ StatusBattery \/ StatusRetry \/ StatusReturn

SpecStatus == InitStatus /\ [][NextStatus]_vars

\* C33: within one boot "no battery detected" is handed to
\* send_status_update_with_retry at most once; a call hands it over exactly
\* when it is the first call that finds no battery, whatever the retries
\* give; and every call that finds a battery has attempted the battery
\* status: api_send_battery_status was called and has answered.
C33_NoBatteryOnce ==
    /\ snd.submitted <= 1
    /\ snd.pc \in {"retry", "return"} =>
          /\ snd.submitted_now <=> (~snd.present /\ ~snd.absent_before)
          /\ snd.pc = "retry" => snd.attempt \in 1..MaxAttempts
          /\ snd.present => snd.battery_result # "none"

(***************************************************************************)
(* SpecCycle: the control flow of task_send_data from power-on, with the   *)
(* Wi-Fi connection, the wait loops and the retry loops step by step and   *)
(* the sampler taking and giving buffer_mutex.  What the readings are is   *)
(* left to the environment: whether the store or the buffer holds any and  *)
(* whether the filter keeps any is chosen where the code asks.  snd is     *)
(* [pc, boot, wifi, retries, polls, statuses, attempt, ret, success,       *)
(* branch, due, ended]: boot, the task has not reached its loop; wifi, the *)
(* station is connected; retries, the wait loop's counter; polls, the      *)
(* vTaskDelay calls of the wait that is running or was last run;           *)
(* statuses, the status updates the task may still send before it turns to *)
(* the readings; attempt, ret, success, the retry loop, where it returns   *)
(* to and what it returned; branch, which side of if (wifi_is_connected()) *)
(* the cycle took; due, whether now - last_send_time has reached           *)
(* DATA_SEND_INTERVAL_S; ended, bookkeeping: the branch of the cycle body  *)
(* that has just ended, forgotten by the next step of the loop.            *)
(***************************************************************************)
\* task_send_data at its first statement
StartCycle ==
    [pc |-> "start", boot |-> TRUE, wifi |-> FALSE, retries |-> 0, polls |-> 0,
     statuses |-> 0, attempt |-> 0, ret |-> "none", success |-> FALSE,
     branch |-> "none", due |-> FALSE, ended |-> "none"]

InitCycle ==
    /\ InitStoreVars
    /\ current_readings = init_reading_buffer(1)
    /\ unsent_buffer = init_reading_buffer(1)
    /\ mock_connected = FALSE
    /\ last_ntp_sync = 0
    /\ cycle_result = "none"
    /\ cycle_calls = <<>>
    /\ InitAddGhost
    /\ next_id = 1
    /\ reading_buffer = [i \in 1..BufferSize |-> ZeroReading]
    /\ reading_idx = 0
    /\ buffer_mutex = "free"
    /\ wifi_send_failed = FALSE
    /\ sys_time = 0
    /\ smp = InitSampler
    /\ snd = StartCycle
    /\ env_good = FALSE
    /\ tk_ghost = InitTaskGhost

\* what the steps of SpecCycle leave alone
cycleFrame == <<coreVars, storeVars, reading_buffer, reading_idx, sys_time, env_good,
                tk_ghost>>

\* a continue that leaves last_send_time as it was
DueKeptAfterContinue(due) == due

\* last_send_time = time(NULL); continue: at the top of the loop
\* now - last_send_time is below the interval
DueAfterContinue(due) == FALSE

\* persistent_storage_init, wifi_manager_init, int wifi_retries = 15
CycleBoot ==
    /\ snd.pc = "start"
    /\ snd' = [snd EXCEPT !.pc = "wait", !.retries = WifiRetries, !.polls = 0]
    /\ UNCHANGED <<buffer_mutex, wifi_send_failed, smp, cycleFrame>>

\* while (!wifi_is_connected() && retries-- > 0) vTaskDelay(2000 ms), one
\* test of the condition, and if (wifi_is_connected()) when the loop ends
CycleWait ==
    /\ snd.pc = "wait"
    /\ \E connected \in BOOLEAN :
          snd' = IF connected
                 THEN [snd EXCEPT !.pc = "status", !.wifi = TRUE, !.branch = "connected",
                                  !.statuses = IF snd.boot THEN 3 ELSE 1]
                 ELSE IF snd.retries > 0
                 THEN [snd EXCEPT !.retries = @ - 1, !.polls = @ + 1, !.wifi = FALSE]
                 ELSE [snd EXCEPT !.pc = "offline", !.branch = "unconnected",
                                  !.wifi = FALSE]
    /\ UNCHANGED <<buffer_mutex, wifi_send_failed, smp, cycleFrame>>

\* the status updates of the connected branch: at boot the Wi-Fi status,
\* the battery status if it can be read and the NTP status if the clock had
\* to be set; in the loop the battery status if a battery is present
CycleStatus ==
    /\ snd.pc = "status"
    /\ IF snd.statuses = 0
       THEN snd' = [snd EXCEPT !.pc = "stored"]
       ELSE \E send \in BOOLEAN :
               /\ (snd.boot /\ snd.statuses = 3) => send
               /\ snd' = IF send
                         THEN [snd EXCEPT !.statuses = @ - 1, !.pc = "attempt",
                                          !.attempt = 1, !.ret = "status"]
                         ELSE [snd EXCEPT !.statuses = @ - 1]
    /\ UNCHANGED <<buffer_mutex, wifi_send_failed, smp, cycleFrame>>

\* one turn of the retry loop of send_status_update_with_retry or
\* send_sensor_data_with_retry: the transmit call and what follows its result
CycleAttempt ==
    /\ snd.pc = "attempt"
    /\ \E result \in SendResults :
          snd' = IF result = "ESP_OK"
                 THEN [snd EXCEPT !.pc = snd.ret, !.success = TRUE]
                 ELSE IF result \in NonRetryable \/ snd.attempt + 1 > MaxAttempts
                 THEN [snd EXCEPT !.pc = snd.ret, !.success = FALSE]
                 ELSE [snd EXCEPT !.attempt = @ + 1]
    /\ UNCHANGED <<buffer_mutex, wifi_send_failed, smp, cycleFrame>>

\* send_stored_readings, called at boot and, in the loop, if the flag is
\* set: it returns before the send (early: the count is 0 or cannot be read,
\* malloc or the load fails), the filter leaves nothing, or the retry loop
\* is entered
CycleStored ==
    /\ snd.pc = "stored"
    /\ IF snd.boot \/ wifi_send_failed
       THEN \E how \in {"early_true", "early_false", "filtered", "send"} :
               snd' = IF how = "send"
                      THEN [snd EXCEPT !.pc = "attempt", !.attempt = 1,
                                       !.ret = "stored_done"]
                      ELSE [snd EXCEPT !.pc = "stored_done",
                                       !.success = how # "early_false"]
       ELSE snd' = [snd EXCEPT !.pc = "malloc"]
    /\ UNCHANGED <<buffer_mutex, wifi_send_failed, smp, cycleFrame>>

\* after send_stored_readings: at boot the flag is reset and
\* time(&last_send_time) leads into the loop; in the loop the malloc of
\* temp_buffer follows
CycleStoredDone ==
    /\ snd.pc = "stored_done"
    /\ IF snd.boot
       THEN /\ wifi_send_failed' = FALSE
            /\ snd' = [snd EXCEPT !.pc = "check", !.boot = FALSE, !.due = FALSE]
       ELSE /\ snd' = [snd EXCEPT !.pc = "malloc"]
            /\ UNCHANGED wifi_send_failed
    /\ UNCHANGED <<buffer_mutex, smp, cycleFrame>>

\* not connected: the flag is set; at boot the loop follows; in the loop the
\* malloc of the block the readings are saved from, and nothing more if it
\* fails
CycleOffline ==
    /\ snd.pc = "offline"
    /\ wifi_send_failed' = TRUE
    /\ IF snd.boot
       THEN snd' = [snd EXCEPT !.pc = "check", !.boot = FALSE, !.due = FALSE]
       ELSE \E malloc_ok \in BOOLEAN :
               snd' = IF malloc_ok
                      THEN [snd EXCEPT !.pc = "take"]
                      ELSE [snd EXCEPT !.pc = "delay", !.due = FALSE,
                                       !.ended = "unconnected"]
    /\ UNCHANGED <<buffer_mutex, smp, cycleFrame>>

\* connected: malloc of temp_buffer; if it fails: the flag,
\* last_send_time = time(NULL), continue
CycleMalloc ==
    /\ snd.pc = "malloc"
    /\ \E malloc_ok \in BOOLEAN :
          IF malloc_ok
          THEN /\ snd' = [snd EXCEPT !.pc = "take"]
               /\ UNCHANGED wifi_send_failed
          ELSE /\ snd' = [snd EXCEPT !.pc = "check", !.due = DueAfterContinue(snd.due),
                                     !.ended = "connected"]
               /\ wifi_send_failed' = TRUE
    /\ UNCHANGED <<buffer_mutex, smp, cycleFrame>>

\* xSemaphoreTake(context->buffer_mutex, portMAX_DELAY)
CycleTake ==
    /\ snd.pc = "take"
    /\ buffer_mutex = "free"
    /\ buffer_mutex' = "sender"
    /\ snd' = [snd EXCEPT !.pc = "drain"]
    /\ UNCHANGED <<wifi_send_failed, smp, cycleFrame>>

\* the copy of the buffer if it holds readings, xSemaphoreGive; then the
\* live send: nothing drained or nothing left by the filter gives success
\* without a transmit; not connected: the save, free and
\* last_send_time = time(NULL)
CycleDrain ==
    /\ snd.pc = "drain"
    /\ buffer_mutex' = "free"
    /\ \E how \in {"none", "filtered", "send"} :
          snd' = IF snd.branch = "unconnected"
                 THEN [snd EXCEPT !.pc = "delay", !.due = FALSE, !.ended = "unconnected"]
                 ELSE IF how = "send"
                 THEN [snd EXCEPT !.pc = "attempt", !.attempt = 1, !.ret = "disconnect"]
                 ELSE [snd EXCEPT !.pc = "disconnect", !.success = TRUE]
    /\ UNCHANGED <<wifi_send_failed, smp, cycleFrame>>

\* free(temp_buffer), wifi_send_failed = !send_success, esp_wifi_disconnect,
\* esp_wifi_stop, last_send_time = time(NULL)
CycleDisconnect ==
    /\ snd.pc = "disconnect"
    /\ wifi_send_failed' = ~snd.success
    /\ snd' = [snd EXCEPT !.pc = "delay", !.wifi = FALSE, !.due = FALSE,
                          !.ended = "connected"]
    /\ UNCHANGED <<buffer_mutex, smp, cycleFrame>>

\* vTaskDelay(TASK_LOOP_CHECK_INTERVAL_S * 1000 ms): afterwards the interval
\* has passed or not
CycleDelay ==
    /\ snd.pc = "delay"
    /\ \E due \in BOOLEAN :
          snd' = [snd EXCEPT !.pc = "check", !.due = snd.due \/ due, !.ended = "none"]
    /\ UNCHANGED <<buffer_mutex, wifi_send_failed, smp, cycleFrame>>

\* the top of the loop: the interval check; when it has passed: night with
\* deep sleep (the chip starts over, RAM lost), night awake, or
\* wifi_manager_init and int connection_retries = 15
CycleCheck ==
    /\ snd.pc = "check"
    /\ IF ~snd.due
       THEN /\ snd' = [snd EXCEPT !.pc = "delay", !.ended = "none"]
            /\ UNCHANGED <<buffer_mutex, wifi_send_failed, smp>>
       ELSE \E what \in {"day", "night_awake", "night_sleep"} :
               IF what = "night_sleep"
               THEN /\ snd' = StartCycle
                    /\ wifi_send_failed' = FALSE
                    /\ buffer_mutex' = "free"
                    /\ smp' = InitSampler
               ELSE /\ snd' = IF what = "night_awake"
                              THEN [snd EXCEPT !.pc = "night", !.ended = "none"]
                              ELSE [snd EXCEPT !.pc = "wait", !.retries = WifiRetries,
                                               !.polls = 0, !.branch = "none",
                                               !.ended = "none"]
                    /\ UNCHANGED <<buffer_mutex, wifi_send_failed, smp>>
    /\ UNCHANGED cycleFrame

\* night, the chip stays awake: last_send_time = time(NULL); continue
CycleNight ==
    /\ snd.pc = "night"
    /\ snd' = [snd EXCEPT !.pc = "check", !.due = DueAfterContinue(snd.due)]
    /\ UNCHANGED <<buffer_mutex, wifi_send_failed, smp, cycleFrame>>

\* the sampler task: add_sensor_reading takes buffer_mutex
CycleSamplerTake ==
    /\ smp.pc = "wait"
    /\ buffer_mutex = "free"
    /\ buffer_mutex' = "sampler"
    /\ smp' = [smp EXCEPT !.pc = "locked"]
    /\ UNCHANGED <<wifi_send_failed, snd, cycleFrame>>

\* the sampler task: add_sensor_reading gives buffer_mutex back
CycleSamplerGive ==
    /\ smp.pc = "locked"
    /\ buffer_mutex' = "free"
    /\ smp' = [smp EXCEPT !.pc = "wait"]
    /\ UNCHANGED <<wifi_send_failed, snd, cycleFrame>>

CycleSenderNext ==
    \/ CycleBoot
    \/ CycleWait
    \/ CycleStatus
    \/ CycleAttempt
    \/ CycleStored
    \/ CycleStoredDone
    \/ CycleOffline
    \/ CycleMalloc
    \/ CycleTake
    \/ CycleDrain
    \/ CycleDisconnect
    \/ CycleDelay
    \/ CycleCheck
    \/ CycleNight

NextCycle ==
    \/ CycleBoot
    \/ CycleWait
    \/ CycleStatus
    \/ CycleAttempt
    \/ CycleStored
    \/ CycleStoredDone
    \/ CycleOffline
    \/ CycleMalloc
    \/ CycleTake
    \/ CycleDrain
    \/ CycleDisconnect
    \/ CycleDelay
    \/ CycleCheck
    \/ CycleNight
    \/ CycleSamplerTake
    \/ CycleSamplerGive

SpecCycle == InitCycle /\ [][NextCycle]_vars

\* the scheduler runs the sender whenever it is ready, hands buffer_mutex to
\* the sender that waits for it when it is given, and runs the sampler that
\* holds the mutex up to its xSemaphoreGive
SpecCycleFair ==
    /\ SpecCycle
    /\ WF_vars(CycleSenderNext)
    /\ SF_vars(CycleTake)
    /\ WF_vars(CycleSamplerGive)

\* C34: a cycle of the loop that connected to the network has, when its body
\* ends, the network disconnected, on every path out of the connected branch,
\* the failed malloc of temp_buffer included; and every transmit call is made
\* while the network is connected, so that the disconnect comes after the
\* transmit calls of the cycle.
C34_DisconnectedAfterCycle ==
    /\ snd.ended = "connected" => ~snd.wifi
    /\ snd.pc = "attempt" => snd.wifi

\* C35: the loop of task_send_data goes on for ever.  As long as every call
\* returns, the wait for the connection polls at most 15 times, every send
\* makes at most 3 attempts, and whatever fails (the connection, the time
\* sync, a status update, the stored send, the live send, a malloc), the task
\* comes to its vTaskDelay again and again.
C35_LoopGoesOn ==
    /\ [](snd.polls <= 15 /\ snd.retries >= 0 /\ snd.attempt <= 3)
    /\ []<>(snd.pc = "delay")

\* the task is at its vTaskDelay after a cycle in which the wait for the
\* connection used all its 15 polls in vain
C35_Witness ==
    /\ snd.pc = "delay"
    /\ ~snd.boot
    /\ snd.polls = 15
    /\ snd.ended = "unconnected"
    /\ wifi_send_failed

(***************************************************************************)
(* SpecStoredSend: send_all_stored_readings of data_processor.c (the body  *)
(* of send_stored_readings of task_send_data.c is the same, with           *)
(* send_sensor_data_with_retry as the send function) on stores built by    *)
(* saves of up to MaxCapId readings, more than the load buffer holds, with *)
(* any NVS read of the count pass and of the load pass failing.  snd keeps *)
(* the last call: before, the readings the store held; handed, the         *)
(* readings passed to the send function; cleared, whether                  *)
(* persistent_storage_clear_readings was called; ok, the return value.     *)
(***************************************************************************)
\* no call yet
NoStoredSend == [before |-> <<>>, handed |-> <<>>, cleared |-> FALSE, ok |-> FALSE]

\* send_all_stored_readings.  in.count_fails and in.load_fails: the NVS reads
\* that fail in persistent_storage_get_count and in
\* persistent_storage_load_readings; in.malloc_ok: the malloc of
\* stored_readings; in.alloc_ok and in.answers: the filter's malloc and the
\* transmitter inside send_readings_processor; in.clear: what fails in the clear
send_all_stored_readings(st, initialized, now, in) ==
    LET no == [ok |-> FALSE, nvs |-> st, handed |-> <<>>, cleared |-> FALSE]
        yes == [ok |-> TRUE, nvs |-> st, handed |-> <<>>, cleared |-> FALSE]
        cnt == persistent_storage_get_count(st, in.count_fails)
        ld == persistent_storage_load_readings(st, MaxLoadCount, in.load_fails)
    IN IF ~initialized \/ cnt.err # "ESP_OK"
       THEN no
       ELSE IF cnt.count = 0
       THEN yes
       ELSE IF ~in.malloc_ok \/ ld.err # "ESP_OK"
       THEN no
       ELSE IF Len(ld.readings) = 0
       THEN yes
       ELSE LET r == send_readings_processor(ld.readings, now, in.alloc_ok, in.answers)
                cl == ClearAll(st, initialized, in.clear)
            IN IF r.success
               THEN [ok |-> cl.err = "ESP_OK", nvs |-> cl.nvs, handed |-> ld.readings,
                     cleared |-> TRUE]
               ELSE [ok |-> FALSE, nvs |-> st, handed |-> ld.readings, cleared |-> FALSE]

\* persistent_storage_save_readings of a batch of n fresh readings stamped by
\* a valid clock
StoredSave ==
    /\ \E n \in 1..MaxBatchLen, fail_at \in SaveFailKinds :
          /\ next_id + n - 1 <= MaxCapId
          /\ nvs' = SaveAll(nvs, s_initialized,
                            [i \in 1..n |-> [id |-> next_id + i - 1, ts |-> NowValid - 60]],
                            fail_at).nvs
          /\ next_id' = next_id + n
    /\ UNCHANGED <<current_readings, unsent_buffer, mock_connected, last_ntp_sync,
                   cycle_result, cycle_calls, add_call, hist, taskVars,
                   s_initialized, s_nvs_mutex, st_pc, st_op, st_ret, st_ghost>>

\* the reads that may fail in one load pass over batches 0..n-1: none, the
\* counter read, the size query of one batch or the content read of one batch
OneBatchFails(n) ==
    {NoFails, [NoFails EXCEPT !.get = TRUE]}
       \cup {[NoFails EXCEPT !.size = {b}] : b \in 0..n - 1}
       \cup {[NoFails EXCEPT !.read = {b}] : b \in 0..n - 1}

\* one call of send_all_stored_readings
SendAllStored ==
    /\ \E count_fails \in {NoFails, [NoFails EXCEPT !.get = TRUE]},
          load_fails \in OneBatchFails(CountRead(nvs)),
          malloc_ok \in BOOLEAN, alloc_ok \in BOOLEAN,
          answers \in {<<"ESP_OK">>, <<"ESP_FAIL", "ESP_FAIL", "ESP_FAIL">>},
          clear \in ClearFailKinds :
          LET r == send_all_stored_readings(nvs, s_initialized, NowValid,
                      [count_fails |-> count_fails, load_fails |-> load_fails,
                       malloc_ok |-> malloc_ok, alloc_ok |-> alloc_ok,
                       answers |-> answers, clear |-> clear])
          IN /\ nvs' = r.nvs
             /\ snd' = [before |-> StoredReadings(nvs), handed |-> r.handed,
                        cleared |-> r.cleared, ok |-> r.ok]
    /\ UNCHANGED <<coreVars, s_initialized, s_nvs_mutex, st_pc, st_op, st_ret, st_ghost,
                   reading_buffer, reading_idx, buffer_mutex, wifi_send_failed, sys_time,
                   smp, env_good, tk_ghost>>

InitStoredSend ==
    /\ InitStoreVars
    /\ current_readings = init_reading_buffer(1)
    /\ unsent_buffer = init_reading_buffer(1)
    /\ mock_connected = FALSE
    /\ last_ntp_sync = 0
    /\ cycle_result = "none"
    /\ cycle_calls = <<>>
    /\ InitAddGhost
    /\ next_id = 1
    /\ reading_buffer = [i \in 1..BufferSize |-> ZeroReading]
    /\ reading_idx = 0
    /\ buffer_mutex = "free"
    /\ wifi_send_failed = FALSE
    /\ sys_time = NowValid
    /\ smp = InitSampler
    /\ snd = NoStoredSend
    /\ env_good = FALSE
    /\ tk_ghost = InitTaskGhost

NextStoredSend == CapInit \/ StoredSave \/ SendAllStored

SpecStoredSend == InitStoredSend /\ [][NextStoredSend]_vars

\* C36: stored readings are cleared only after being sent.  Whenever
\* send_all_stored_readings has called persistent_storage_clear_readings,
\* every reading the store held before the call was loaded and passed to the
\* send function, whether the store held more readings than the load buffer
\* or a batch that could not be read; no reading is gone from the store that
\* was not handed over.
C36_ClearedOnlyAfterSent ==
    snd.cleared =>
       /\ Range(snd.before) \subseteq Range(snd.handed)
       /\ Range(snd.before) \ Range(StoredReadings(nvs)) \subseteq Range(snd.handed)

\* C37: conservation in process_data_send_cycle.  In every call, whatever
\* connect and send_data answer, if the readings the call appends to the unsent
\* buffer fit its free space, each reading that was in the current or the unsent
\* buffer before the call is afterwards either in the unsent buffer or in the
\* data of a send_data call that returned true, never both and never neither,
\* and nothing else is in the unsent buffer; the current buffer has count 0
\* after every call that does not return SEND_RESULT_NO_DATA; and the unsent
\* buffer stays in oldest-first order, overflow or not.
C37_Conservation ==
    [][LET sends == SendCalls(cycle_calls')
           old == Contents(unsent_buffer)
           cur == Contents(current_readings)
           acked == UNION {Range(sends[i].data) : i \in {j \in 1..Len(sends) : sends[j].ok}}
           after == Contents(unsent_buffer')
           sent_unsent == sends # <<>> /\ sends[1].op = "send_unsent" /\ sends[1].ok
           left == IF sent_unsent THEN <<>> ELSE old
           appended == cur # <<>> /\ Range(cur) \cap acked = {}
           fits == appended => Len(left) + Len(cur) <= unsent_buffer.capacity
       IN cycle_result' # "none" =>
             /\ fits =>
                   /\ \A x \in Range(old) \cup Range(cur) :
                         (x \in Range(after)) # (x \in acked)
                   /\ Range(after) \subseteq Range(old) \cup Range(cur)
                   /\ Len(after) = Cardinality(Range(after))
             /\ cycle_result' # "SEND_RESULT_NO_DATA" => current_readings'.count = 0
             /\ \A i, j \in 1..Len(after) : i < j => after[i] < after[j]]_vars

\* a connected cycle has failed to send the unsent reading and then the
\* current reading; neither was acknowledged and both are in the unsent buffer,
\* the older one first
C37_Witness ==
    /\ cycle_result = "SEND_RESULT_SEND_FAILED"
    /\ SendCalls(cycle_calls) = <<Call("send_unsent", <<1>>, FALSE),
                                  Call("send_current", <<2>>, FALSE)>>
    /\ current_readings.count = 0
    /\ Contents(unsent_buffer) = <<1, 2>>

(***************************************************************************)
(* SpecKeepalive: keepalive_task of task_keepalive_transistor.c with       *)
(* update_keepalive_timing changing the configuration under it.  smp is    *)
(* g_keepalive_state (config, the holder of config_mutex, the updater's    *)
(* arguments and return value); snd is the task: its current_config, the   *)
(* values it computed in the last turn of its loop and the milliseconds it *)
(* passed to vTaskDelay.  uint32_t arithmetic is taken modulo              *)
(* KeepaliveWord.                                                          *)
(***************************************************************************)
\* on_duration_seconds and interval_minutes a caller may pass
OnDurations == {10, 60, 90, 240}
IntervalMinutes == {1, 4}

KeepaliveConfigs ==
    [on_duration_seconds : OnDurations, interval_minutes : IntervalMinutes]

\* KEEPALIVE_CONFIG_DEFAULT(), the GPIO number left out
KeepaliveDefault == [on_duration_seconds |-> 10, interval_minutes |-> 4]

\* the sleep time with the comparison made before the subtraction
KeepaliveSleepTimeChecked(config) ==
    LET interval_seconds == (config.interval_minutes * 60) % KeepaliveWord
        sleep_seconds == IF config.on_duration_seconds >= interval_seconds
                         THEN 0
                         ELSE interval_seconds - config.on_duration_seconds
    IN [interval_seconds |-> interval_seconds,
        sleep_seconds |-> sleep_seconds,
        branch |-> IF sleep_seconds > 0 THEN "sleep" ELSE "minimum",
        delay_ms |-> IF sleep_seconds > 0
                     THEN (sleep_seconds * 1000) % KeepaliveWord
                     ELSE 1000]

\* "Calculate sleep time (interval minus the ON duration)" and the delay that
\* follows, in uint32_t
KeepaliveSleepTime(config) ==
    LET interval_seconds == (config.interval_minutes * 60) % KeepaliveWord
        sleep_seconds == (interval_seconds - config.on_duration_seconds) % KeepaliveWord
    IN [interval_seconds |-> interval_seconds,
        sleep_seconds |-> sleep_seconds,
        branch |-> IF sleep_seconds > 0 THEN "sleep" ELSE "minimum",
        delay_ms |-> IF sleep_seconds > 0
                     THEN (sleep_seconds * 1000) % KeepaliveWord
                     ELSE 1000]

\* init_smart_keepalive_task has accepted a configuration (both fields
\* non-zero) and created the task
InitKeepalive ==
    /\ InitStoreVars
    /\ current_readings = init_reading_buffer(1)
    /\ unsent_buffer = init_reading_buffer(1)
    /\ mock_connected = FALSE
    /\ last_ntp_sync = 0
    /\ cycle_result = "none"
    /\ cycle_calls = <<>>
    /\ InitAddGhost
    /\ next_id = 1
    /\ reading_buffer = [i \in 1..BufferSize |-> ZeroReading]
    /\ reading_idx = 0
    /\ buffer_mutex = "free"
    /\ wifi_send_failed = FALSE
    /\ sys_time = 0
    /\ env_good = FALSE
    /\ tk_ghost = InitTaskGhost
    /\ \E config \in KeepaliveConfigs \cup {KeepaliveDefault} :
          /\ smp = [config |-> config, config_mutex |-> "free",
                    args |-> config, ret |-> "none", total_activations |-> 0]
          /\ snd = [pc |-> "start", current_config |-> KeepaliveDefault,
                    gpio |-> 0, on_ms |-> 0, interval_seconds |-> 0,
                    sleep_seconds |-> 0, branch |-> "none", delay_ms |-> 0]

keepaliveFrame ==
    <<coreVars, storeVars, reading_buffer, reading_idx, buffer_mutex, wifi_send_failed,
      sys_time, env_good, tk_ghost>>

\* "Initial configuration": xSemaphoreTake(config_mutex, portMAX_DELAY), copy
KeepaliveStart ==
    /\ snd.pc = "start"
    /\ smp.config_mutex = "free"
    /\ snd' = [snd EXCEPT !.pc = "loop", !.current_config = smp.config]
    /\ UNCHANGED <<smp, keepaliveFrame>>

\* the top of the loop: the configuration is copied if the mutex is had within
\* 100 ms, and kept as it was otherwise
KeepaliveRead ==
    /\ snd.pc = "loop"
    /\ smp.total_activations < MaxActivations
    /\ snd' = [snd EXCEPT !.pc = "activate",
                          !.current_config = IF smp.config_mutex = "free"
                                             THEN smp.config ELSE @]
    /\ UNCHANGED <<smp, keepaliveFrame>>

\* activate_keepalive_resistor(on_duration_seconds, control_gpio)
KeepaliveActivate ==
    /\ snd.pc = "activate"
    /\ \E on_ok \in BOOLEAN, off_ok \in BOOLEAN :
          IF ~on_ok
          THEN /\ snd' = [snd EXCEPT !.pc = "sleep", !.on_ms = 0]
               /\ smp' = smp
          ELSE /\ snd' = [snd EXCEPT !.pc = "sleep",
                                     !.on_ms = (snd.current_config.on_duration_seconds * 1000)
                                                  % KeepaliveWord,
                                     !.gpio = IF off_ok THEN 0 ELSE 1]
               /\ smp' = [smp EXCEPT !.total_activations = (@ + 1) % KeepaliveWord]
    /\ UNCHANGED keepaliveFrame

\* the sleep until the next activation
KeepaliveSleep ==
    /\ snd.pc = "sleep"
    /\ LET t == KeepaliveSleepTime(snd.current_config)
       IN snd' = [snd EXCEPT !.pc = "loop",
                             !.interval_seconds = t.interval_seconds,
                             !.sleep_seconds = t.sleep_seconds,
                             !.branch = t.branch,
                             !.delay_ms = t.delay_ms]
    /\ UNCHANGED <<smp, keepaliveFrame>>

\* update_keepalive_timing up to its xSemaphoreTake
UpdateCall ==
    /\ smp.config_mutex = "free"
    /\ \E on \in OnDurations \cup {0}, interval \in IntervalMinutes \cup {0} :
          IF on = 0 \/ interval = 0
          THEN smp' = [smp EXCEPT !.ret = "ESP_ERR_INVALID_ARG"]
          ELSE smp' = [smp EXCEPT !.config_mutex = "updater", !.ret = "none",
                                  !.args = [on_duration_seconds |-> on,
                                            interval_minutes |-> interval]]
    /\ UNCHANGED <<snd, keepaliveFrame>>

\* update_keepalive_timing: the two assignments and xSemaphoreGive
UpdateWrite ==
    /\ smp.config_mutex = "updater"
    /\ smp' = [smp EXCEPT !.config = smp.args, !.config_mutex = "free", !.ret = "ESP_OK"]
    /\ UNCHANGED <<snd, keepaliveFrame>>

NextKeepalive ==
    \/ KeepaliveStart
    \/ KeepaliveRead
    \/ KeepaliveActivate
    \/ KeepaliveSleep
    \/ UpdateCall
    \/ UpdateWrite

SpecKeepalive == InitKeepalive /\ [][NextKeepalive]_vars

\* C39: the keep-alive sleep.  At the end of every turn of keepalive_task's
\* loop, for the configuration the turn ran with: if
\* on_duration_seconds >= interval_minutes * 60 the task took the minimum
\* sleep of 1 second, and otherwise it slept exactly
\* interval_minutes * 60 - on_duration_seconds seconds; the value slept is
\* never a wrapped difference.
C39_KeepaliveSleep ==
    (snd.pc = "loop" /\ snd.branch # "none") =>
       LET on == snd.current_config.on_duration_seconds
           interval == snd.current_config.interval_minutes * 60
       IN IF on >= interval
          THEN snd.branch = "minimum" /\ snd.delay_ms = 1000
          ELSE /\ snd.branch = "sleep"
               /\ snd.sleep_seconds = interval - on
               /\ snd.delay_ms = (interval - on) * 1000

====
